---- MODULE Spec2Model ----
(***************************************************************************)
(* Session registry (server/room_manager.py), match process launcher       *)
(* (server/game_launcher.py) and the lobby's connection directory and       *)
(* game_started fan-out (server/lobby_server.py), and the length-prefixed   *)
(* framing of one connection (server/utils/protocol.py).                    *)
(***************************************************************************)
EXTENDS Integers, Sequences, FiniteSets, TLC

\* ---------------------------------------------------------------- bounds
Users == {"alice", "bob"}
MaxRooms == 1          \* rooms created in one run (next_room_id is unbounded)
MaxCapacity == 3       \* max_players passed to create_room ranges over 2..MaxCapacity
MaxProbes == 2         \* connect attempts that fit before the readiness deadline
NumPorts == 2          \* size of the port range random.randint draws from
MaxProcs == 2          \* processes spawned in one run
NumConns == 3          \* connections the lobby accepts in one run
LobbyMaxProcs == 1     \* processes spawned in one run of the lobby
MaxChat == 1           \* chat messages accepted by one room in one run
NumThreads == 2        \* threads writing to the framed connection
MaxSends == 2          \* send() calls on the framed connection in one run
MaxRaw == 1            \* frames written by a peer that does not use send()
MaxSeats == 4          \* seats of one Battleship match (max_players is 8)
MaxDrops == 1          \* client connections lost in one Battleship match
BOARD_SIZE == 2        \* side of a Battleship board (10 in the scripts)
MaxLocks == 2          \* pieces locked in one Tetris match
NumWorkers == 2        \* connection workers inside RoomManager at the same time
MaxSpectators == 1     \* spectators attached to one Tetris match at a time
MaxLate == 1           \* tick periods counted while the main thread is blocked
MaxShift == 1          \* columns a Tetris piece can move away from its spawn column

\* ------------------------------------------------------- program constants
DefaultMaxPlayers == 2 \* `int(room.max_players or 2)`
MinPlayers == 2        \* `len(room.players) < 2`
TetrisId == 2          \* registry key of a registered game
UnknownId == TetrisId + 1  \* a game id with no registry entry

GameIds == {TetrisId, UnknownId}
RegisteredGames == {TetrisId}
Ports == 1..NumPorts
NoPort == 0            \* Room.port = None
RoomTypes == {"public", "private"}
Conns == 1..NumConns
Threads == 1..NumThreads

VARIABLES
    rooms,        \* RoomManager.rooms : room_id -> Room
    next_room_id, \* RoomManager.next_room_id
    invites,      \* RoomManager.invites : room_id -> set of usernames
    launcher,     \* RoomManager.launcher is not None
    procs,        \* processes spawned by GameLauncher.launch, in spawn order
    ret,          \* the last call: its arguments, its return value, what it did
    conn_state,   \* per connection: "idle" (not accepted yet), "open", "closed"
    conn_user,    \* handle_client's local `user` of each connection
    online,       \* AccountManager.online_users
    clients,      \* LobbyServer.clients : username -> list of connections
    monitors,     \* LobbyServer.monitors : username -> list of connections
    wire,         \* bytes written to the framed connection and not yet read
    wclosed,      \* the writing end of the framed connection has closed
    out,          \* per writer thread: the bytes its sendall has yet to write
    sent,         \* per writer thread: the objects it has called send() on
    raw,          \* frames written without send()
    rd,           \* the reader's recv in progress: phase, need, buf, status
    delivered,    \* the objects recv has returned, in order
    script,       \* which battleship_server.py runs: "none", "u2", "storage"
    phase,        \* start(): "idle", "seating", "playing", "over"
    bplayers,     \* BattleshipServer.players (storage: p1, p2): conn, board
    alive,        \* relay_turn's alive list (u2)
    turn_pos,     \* relay_turn's cursor into alive (u2)
    turn,         \* BattleshipServer.turn (storage): 1 or 2
    drops,        \* client connections lost so far
    last,         \* the last pass of the match server: what it sent and did
    pstate,       \* Game.players : name -> PlayerState (Tetris)
    inp,          \* per player: where its input_loop thread stands
    granted,      \* per player: flash charges ever added to flash_charges
    tried,        \* per player: a HOLD was handled since the player's last lock
    lastlock,     \* the last lock: who, piece, rows cleared, score given
    nlocks,       \* pieces locked so far
    tphase,       \* handle_game: "idle", "running", "over"
    online_users, \* AccountManager.online_users : username -> session
    acct_ret,     \* the last AccountManager call: arguments, result_msg, session before
    wk,           \* per connection worker: where it is in a RoomManager call
    made,         \* the room ids create_room has returned, in order
    lpc,          \* handle_game's main thread: where it is in the loop
    over,         \* handle_game: over
    spectators,   \* handle_game: the spectators list (TRUE: the connection is open)
    clients_lock, \* handle_game: clients_lock is held
    late,         \* tick periods that went by while the main thread was blocked
    shown,        \* per player and audience: the lock whose rows were last shown
    result_msg    \* the RESULT message and the connections it was sent to

dir == <<conn_state, conn_user, online, clients, monitors>>
net == <<wire, wclosed, out, sent, raw, rd, delivered>>
bship == <<script, phase, bplayers, alive, turn_pos, turn, drops, last>>
tetris == <<pstate, inp, granted, tried, lastlock, nlocks, tphase>>
game == <<bship, tetris>>
accounts == <<online_users, acct_ret>>
workers == <<wk, made>>
match == <<lpc, over, spectators, clients_lock, late, shown, result_msg>>
vars == <<rooms, next_room_id, invites, launcher, procs, ret, dir, net, game,
         accounts, workers, match>>

RoomIds == DOMAIN rooms

\* the record every call leaves in ret
Ret(op, room, user, ok) ==
    [op |-> op, room |-> room, user |-> user, ok |-> ok, port |-> NoPort,
     launched |-> FALSE, proc |-> 0, probes |-> <<>>, sent |-> <<>>]

NoUser == "-"

\* ------------------------------------------------------------ Room helpers
Room(game_id, host, type, max_players) ==
    [game_id |-> game_id, host |-> host, type |-> type, players |-> <<>>,
     max_players |-> max_players, status |-> "waiting", port |-> NoPort,
     chat |-> <<>>]

InSeq(x, s) == \E i \in DOMAIN s : s[i] = x

\* ------------------------------------------------------- utils/protocol.py
MAX_LEN == 64 * 1024
HeaderSize == 4        \* struct "!I"
LBrace == 123          \* "{", the first byte of a JSON object
RBrace == 125          \* "}", its last byte

\* struct.pack("!I", n): 4 bytes, most significant first
pack(n) ==
    <<(n \div 16777216) % 256, (n \div 65536) % 256, (n \div 256) % 256, n % 256>>

\* struct.unpack("!I", h) of a 4-byte header
unpack(h) == h[1] * 16777216 + h[2] * 65536 + h[3] * 256 + h[4]

\* json.dumps(obj).encode("utf-8"): an object is the sequence of the bytes
\* between its braces
dumps(obj) == <<LBrace>> \o obj \o <<RBrace>>

\* json.loads accepts the text: one object, the braces only at its ends
loads_ok(data) ==
    /\ Len(data) >= 2
    /\ data[1] = LBrace
    /\ data[Len(data)] = RBrace
    /\ \A i \in 2..(Len(data) - 1) : data[i] \notin {LBrace, RBrace}

loads(data) == SubSeq(data, 2, Len(data) - 1)

\* the objects the writers send
Objs == {<<1>>, <<2>>}

\* what send(sock, obj) hands to sock.sendall
frame(obj) == pack(Len(dumps(obj))) \o dumps(obj)

\* frames of a peer that writes its own header: declared length 0, the
\* maximum, one more than the maximum, each before a 3-byte body
RawFrames == {pack(n) \o dumps(<<1>>) : n \in {0, MAX_LEN, MAX_LEN + 1}}

\* recv waiting for a header
Reading == [phase |-> "header", need |-> HeaderSize, buf |-> <<>>,
            status |-> "reading"]

NetInit ==
    /\ wire = <<>>
    /\ wclosed = FALSE
    /\ out = [t \in Threads |-> <<>>]
    /\ sent = [t \in Threads |-> <<>>]
    /\ raw = 0
    /\ rd = Reading
    /\ delivered = <<>>

\* int(room.max_players or 2)
Capacity(room) == IF room.max_players = 0 THEN DefaultMaxPlayers ELSE room.max_players

\* Battleship match server: the state before the script runs.
\* What the last pass did.
Last(op, att, def, result) ==
    [op |-> op, att |-> att, def |-> def, result |-> result, kind |-> "-",
     symbol |-> "-", your_turn |-> FALSE, incoming |-> FALSE, win |-> {}, lose |-> {}]

BsIdle ==
    /\ script = "none"
    /\ phase = "idle"
    /\ bplayers = <<>>
    /\ alive = <<>>
    /\ turn_pos = 0
    /\ turn = 1
    /\ drops = 0
    /\ last = Last("init", 0, 0, "-")

\* Tetris match server (game_server.py): the state before handle_game has
\* its two players.
TPlayers == {"P1", "P2"}

Opp(p) == IF p = "P1" THEN "P2" ELSE "P1"

NoPiece == "-"

NoActive == [p |-> NoPiece, x |-> 0, r |-> 0]

\* PlayerState.__init__ (16-32).  board stands for the grid: the number of
\* pieces locked onto it; frozen is time.time() < freeze_until.
PlayerState ==
    [board |-> 0, active |-> NoActive, alive |-> TRUE, score |-> 0,
     lines |-> 0, frozen |-> FALSE, hold |-> NoPiece, hold_used |-> FALSE,
     flash_charges |-> 0, flash_granted |-> 0, cleared_recent |-> 0]

NoLock == [who |-> NoPiece, piece |-> NoPiece, cleared |-> 0, award |-> 0]

TetIdle ==
    /\ pstate = [p \in TPlayers |-> PlayerState]
    /\ inp = [p \in TPlayers |-> "off"]
    /\ granted = [p \in TPlayers |-> 0]
    /\ tried = [p \in TPlayers |-> FALSE]
    /\ lastlock = NoLock
    /\ nlocks = 0
    /\ tphase = "idle"

\* AccountManager.online_users: no entry for a username
NoSession == [present |-> FALSE, role |-> "-", connected |-> FALSE]

Session(role, connected) == [present |-> TRUE, role |-> role, connected |-> connected]

Accounts == {"alice", "root", "dev1", "ghost"}

AcctRet(op, user, valid, ok, msg, before) ==
    [op |-> op, user |-> user, valid |-> valid, ok |-> ok, msg |-> msg,
     before |-> before]

AcctIdle ==
    /\ online_users = [u \in Accounts |-> NoSession]
    /\ acct_ret = AcctRet("init", "-", FALSE, TRUE, "-", NoSession)

Workers == 1 .. NumWorkers

\* a worker that is in no RoomManager call
IdleWorker == [pc |-> "idle", room |-> 0, user |-> NoUser, type |-> "-", max |-> 0]

WorkersIdle ==
    /\ wk = [w \in Workers |-> IdleWorker]
    /\ made = <<>>

\* who is sent a player's cleared rows: the player, the opponent (in its
\* 'opp' view), the spectators
Audiences == {"you", "opp", "spec"}

NoResult == [winners |-> {}, losers |-> {}, to |-> {}]

MatchIdle ==
    /\ lpc = "accept"
    /\ over = FALSE
    /\ spectators = <<>>
    /\ clients_lock = FALSE
    /\ late = 0
    /\ shown = [p \in TPlayers |-> [a \in Audiences |-> 0]]
    /\ result_msg = NoResult

GameIdle == BsIdle /\ TetIdle /\ AcctIdle /\ WorkersIdle /\ MatchIdle

Init ==
    /\ rooms = <<>>
    /\ next_room_id = 1
    /\ invites = <<>>
    /\ launcher = FALSE
    /\ procs = <<>>
    /\ ret = Ret("init", 0, NoUser, TRUE)
    /\ conn_state = [c \in Conns |-> "idle"]
    /\ conn_user = [c \in Conns |-> NoUser]
    /\ online = [u \in Users |-> "none"]
    /\ clients = <<>>
    /\ monitors = <<>>
    /\ NetInit
    /\ GameIdle

\* ------------------------------------------------------------ RoomManager
attach_launcher ==
    /\ launcher' = TRUE
    /\ ret' = Ret("attach_launcher", 0, NoUser, TRUE)
    /\ UNCHANGED <<accounts, workers, match, game, net, dir, rooms, next_room_id, invites, procs>>

create_room(game_id, username, room_type, max_players) ==
    /\ next_room_id <= MaxRooms
    /\ rooms' = rooms @@ (next_room_id :>
          [Room(game_id, username, room_type, max_players)
              EXCEPT !.players = <<username>>])
    /\ next_room_id' = next_room_id + 1
    /\ ret' = Ret("create_room", next_room_id, username, TRUE)
    /\ UNCHANGED <<accounts, workers, match, game, net, dir, invites, launcher, procs>>

\* join_room with the capacity check left out
join_room_result_nocap(room_id, username) ==
    IF room_id \notin RoomIds THEN [ok |-> FALSE, msg |-> "Room does not exist."]
    ELSE LET room == rooms[room_id] IN
         IF room.status # "waiting"
           THEN [ok |-> FALSE, msg |-> "Room already started."]
         ELSE IF room.type = "private" /\ username # room.host
           THEN [ok |-> FALSE, msg |-> "This is a private room."]
         ELSE [ok |-> TRUE, msg |-> "joined"]

\* the (ok, msg) join_room returns
join_room_result(room_id, username) ==
    IF room_id \notin RoomIds THEN [ok |-> FALSE, msg |-> "Room does not exist."]
    ELSE LET room == rooms[room_id] IN
         IF room.status # "waiting"
           THEN [ok |-> FALSE, msg |-> "Room already started."]
         ELSE IF Len(room.players) >= Capacity(room)
           THEN [ok |-> FALSE, msg |-> "Room already full"]
         ELSE IF room.type = "private" /\ username # room.host
           THEN [ok |-> FALSE, msg |-> "This is a private room."]
         ELSE [ok |-> TRUE, msg |-> "joined"]

join_room(room_id, username) ==
    LET r == join_room_result(room_id, username) IN
    /\ rooms' = IF r.ok
                  THEN [rooms EXCEPT ![room_id].players = Append(@, username)]
                  ELSE rooms
    /\ ret' = Ret("join_room", room_id, username, r.ok)
    /\ UNCHANGED <<accounts, workers, match, game, net, dir, next_room_id, invites, launcher, procs>>

\* self.invites.setdefault(room_id, set()).add(target)
Pending(room_id) == IF room_id \in DOMAIN invites THEN invites[room_id] ELSE {}

\* invite_user with the host check left out
invite_user_result_nohost(room_id, host, target) ==
    IF room_id \notin RoomIds THEN [ok |-> FALSE, msg |-> "Room does not exist."]
    ELSE LET room == rooms[room_id] IN
         IF room.type # "private"
           THEN [ok |-> FALSE, msg |-> "Invites are only for private rooms."]
         ELSE IF InSeq(target, room.players)
           THEN [ok |-> FALSE, msg |-> "User already in room."]
         ELSE [ok |-> TRUE, msg |-> "invited"]

invite_user_result(room_id, host, target) ==
    IF room_id \notin RoomIds THEN [ok |-> FALSE, msg |-> "Room does not exist."]
    ELSE LET room == rooms[room_id] IN
         IF room.host # host
           THEN [ok |-> FALSE, msg |-> "Only the host can invite users."]
         ELSE IF room.type # "private"
           THEN [ok |-> FALSE, msg |-> "Invites are only for private rooms."]
         ELSE IF InSeq(target, room.players)
           THEN [ok |-> FALSE, msg |-> "User already in room."]
         ELSE [ok |-> TRUE, msg |-> "invited"]

invite_user(room_id, host, target) ==
    LET r == invite_user_result(room_id, host, target) IN
    /\ invites' = IF ~r.ok THEN invites
                  ELSE IF room_id \in DOMAIN invites
                         THEN [invites EXCEPT ![room_id] = @ \cup {target}]
                         ELSE invites @@ (room_id :> {target})
    /\ ret' = Ret("invite_user", room_id, host, r.ok)
    /\ UNCHANGED <<accounts, workers, match, game, net, dir, rooms, next_room_id, launcher, procs>>

\* accept_invite with the pending-invite check left out
accept_invite_result_noinvite(room_id, username) ==
    IF room_id \notin RoomIds THEN [ok |-> FALSE, msg |-> "Room does not exist."]
    ELSE LET room == rooms[room_id] IN
         IF room.status # "waiting"
           THEN [ok |-> FALSE, msg |-> "Room already started."]
         ELSE IF Len(room.players) >= Capacity(room)
           THEN [ok |-> FALSE, msg |-> "Room already full"]
         ELSE [ok |-> TRUE, msg |-> "joined via invite"]

\* accept_invite with the status check left out
accept_invite_result_nostatus(room_id, username) ==
    IF room_id \notin RoomIds THEN [ok |-> FALSE, msg |-> "Room does not exist."]
    ELSE IF room_id \notin DOMAIN invites \/ username \notin invites[room_id]
      THEN [ok |-> FALSE, msg |-> "No invite for this user."]
    ELSE LET room == rooms[room_id] IN
         IF Len(room.players) >= Capacity(room)
           THEN [ok |-> FALSE, msg |-> "Room already full"]
         ELSE [ok |-> TRUE, msg |-> "joined via invite"]

accept_invite_result(room_id, username) ==
    IF room_id \notin RoomIds THEN [ok |-> FALSE, msg |-> "Room does not exist."]
    ELSE IF room_id \notin DOMAIN invites \/ username \notin invites[room_id]
      THEN [ok |-> FALSE, msg |-> "No invite for this user."]
    ELSE LET room == rooms[room_id] IN
         IF room.status # "waiting"
           THEN [ok |-> FALSE, msg |-> "Room already started."]
         ELSE IF Len(room.players) >= Capacity(room)
           THEN [ok |-> FALSE, msg |-> "Room already full"]
         ELSE [ok |-> TRUE, msg |-> "joined via invite"]

\* accept_invite without self.invites[room_id].discard(username)
accept_invite_keep(room_id, username) ==
    LET r == accept_invite_result(room_id, username) IN
    /\ rooms' = IF r.ok
                  THEN [rooms EXCEPT ![room_id].players = Append(@, username)]
                  ELSE rooms
    /\ invites' = invites
    /\ ret' = Ret("accept_invite", room_id, username, r.ok)
    /\ UNCHANGED <<accounts, workers, match, game, net, dir, next_room_id, launcher, procs>>

accept_invite(room_id, username) ==
    LET r == accept_invite_result(room_id, username) IN
    /\ rooms' = IF r.ok
                  THEN [rooms EXCEPT ![room_id].players = Append(@, username)]
                  ELSE rooms
    /\ invites' = IF r.ok
                    THEN [invites EXCEPT ![room_id] = @ \ {username}]
                    ELSE invites
    /\ ret' = Ret("accept_invite", room_id, username, r.ok)
    /\ UNCHANGED <<accounts, workers, match, game, net, dir, next_room_id, launcher, procs>>

revoke_invite_result(room_id, host, target) ==
    IF room_id \notin RoomIds THEN [ok |-> FALSE, msg |-> "Room does not exist."]
    ELSE IF rooms[room_id].host # host
      THEN [ok |-> FALSE, msg |-> "Only the host can revoke invites."]
    ELSE IF room_id \notin DOMAIN invites \/ target \notin invites[room_id]
      THEN [ok |-> FALSE, msg |-> "Invite not found."]
    ELSE [ok |-> TRUE, msg |-> "revoked"]

revoke_invite(room_id, host, target) ==
    LET r == revoke_invite_result(room_id, host, target) IN
    /\ invites' = IF r.ok
                    THEN [invites EXCEPT ![room_id] = @ \ {target}]
                    ELSE invites
    /\ ret' = Ret("revoke_invite", room_id, host, r.ok)
    /\ UNCHANGED <<accounts, workers, match, game, net, dir, rooms, next_room_id, launcher, procs>>

\* ------------------------------------------------------------ GameLauncher
\* a listener is bound to the port: a match process that opened it and runs
PortBusy(port) ==
    \E i \in DOMAIN procs : procs[i].port = port /\ procs[i].state = "listening"

\* the outcome of the k-th socket.create_connection((host, port)): accepted by
\* a listener already on the port, or by the spawned process once it listens
\* (from its listenAt-th probe on; MaxProbes + 1 is not before the deadline)
ProbeAccepted(port, listenAt, k) == PortBusy(port) \/ k >= listenAt

ProbeResults(port, listenAt) ==
    [k \in 1..MaxProbes |-> ProbeAccepted(port, listenAt, k)]

\* _wait_for_port as a fixed wait: the deadline elapsing counts as started
RECURSIVE wait_for_port_sleep(_, _)
wait_for_port_sleep(results, k) ==
    IF k > Len(results) THEN Len(results)
    ELSE IF results[k] THEN k
    ELSE wait_for_port_sleep(results, k + 1)

\* _wait_for_port: the index of the first accepted probe, 0 once the deadline
\* has elapsed (the loop ends after the MaxProbes-th attempt)
RECURSIVE wait_for_port(_, _)
wait_for_port(results, k) ==
    IF k > Len(results) THEN 0
    ELSE IF results[k] THEN k
    ELSE wait_for_port(results, k + 1)

Proc(port, state) == [port |-> port, state |-> state]

LaunchResult(ok, msg, port, newprocs, proc, probes) ==
    [ok |-> ok, msg |-> msg, port |-> port, procs |-> newprocs,
     proc |-> proc, probes |-> probes]

\* launch without proc.terminate() on the failed-to-listen path
launch_noterminate(room_id, port, hasCmd, spawnOk, listenAt) ==
    LET room == rooms[room_id]
        results == ProbeResults(port, listenAt)
        started == wait_for_port(results, 1)
        n == Len(procs) + 1
    IN  IF room.game_id \notin RegisteredGames
          THEN LaunchResult(FALSE, "not found in registry", NoPort, procs, 0, <<>>)
        ELSE IF ~hasCmd
          THEN LaunchResult(FALSE, "Game server not found", NoPort, procs, 0, <<>>)
        ELSE IF ~spawnOk
          THEN LaunchResult(FALSE, "failed_to_start_process", NoPort, procs, 0, <<>>)
        ELSE IF started > 0
          THEN LaunchResult(TRUE, "", port,
                   Append(procs, Proc(port,
                       IF PortBusy(port) THEN "crashed" ELSE "listening")),
                   n, SubSeq(results, 1, started))
        ELSE LaunchResult(FALSE, "server_failed_to_listen_on_port", NoPort,
                   Append(procs, Proc(port, "starting")),
                   n, results)

\* A process state is "listening" (it bound the port and accepts), "crashed"
\* (the port was already bound, so its bind failed and it exited) or
\* "terminated" (proc.terminate() after the deadline).
\* GameLauncher.launch(room). port is random.randint's draw, hasCmd whether a
\* manifest start_cmd or the legacy server script exists, spawnOk whether
\* subprocess.Popen succeeded, listenAt when the spawned process opens the port
launch(room_id, port, hasCmd, spawnOk, listenAt) ==
    LET room == rooms[room_id]
        results == ProbeResults(port, listenAt)
        started == wait_for_port(results, 1)
        n == Len(procs) + 1
    IN  IF room.game_id \notin RegisteredGames
          THEN LaunchResult(FALSE, "not found in registry", NoPort, procs, 0, <<>>)
        ELSE IF ~hasCmd
          THEN LaunchResult(FALSE, "Game server not found", NoPort, procs, 0, <<>>)
        ELSE IF ~spawnOk
          THEN LaunchResult(FALSE, "failed_to_start_process", NoPort, procs, 0, <<>>)
        ELSE IF started > 0
          THEN LaunchResult(TRUE, "", port,
                   Append(procs, Proc(port,
                       IF PortBusy(port) THEN "crashed" ELSE "listening")),
                   n, SubSeq(results, 1, started))
        ELSE LaunchResult(FALSE, "server_failed_to_listen_on_port", NoPort,
                   Append(procs, Proc(port, "terminated")),
                   n, results)

\* start_game marking the room running before the launcher has answered
start_game_result_eager(room_id, port, hasCmd, spawnOk, listenAt) ==
    LET none == [ok |-> FALSE, msg |-> "", port |-> NoPort, rooms |-> rooms,
                 procs |-> procs, launched |-> FALSE, proc |-> 0, probes |-> <<>>]
    IN  IF room_id \notin RoomIds
          THEN [none EXCEPT !.msg = "Room does not exist."]
        ELSE IF Len(rooms[room_id].players) < MinPlayers
          THEN [none EXCEPT !.msg = "Need 2 players to start."]
        ELSE IF ~launcher
          THEN [none EXCEPT !.msg = "GameLauncher not attached."]
        ELSE LET l == launch(room_id, port, hasCmd, spawnOk, listenAt) IN
             [ok |-> l.ok, msg |-> l.msg, port |-> l.port,
              rooms |-> [rooms EXCEPT ![room_id].status = "running",
                                      ![room_id].port = l.port],
              procs |-> l.procs, launched |-> TRUE, proc |-> l.proc,
              probes |-> l.probes]

\* RoomManager.start_game(room_id): the (ok, port_or_err) it returns, the
\* rooms and processes it leaves, whether it called the launcher
start_game_result(room_id, port, hasCmd, spawnOk, listenAt) ==
    LET none == [ok |-> FALSE, msg |-> "", port |-> NoPort, rooms |-> rooms,
                 procs |-> procs, launched |-> FALSE, proc |-> 0, probes |-> <<>>]
    IN  IF room_id \notin RoomIds
          THEN [none EXCEPT !.msg = "Room does not exist."]
        ELSE IF Len(rooms[room_id].players) < MinPlayers
          THEN [none EXCEPT !.msg = "Need 2 players to start."]
        ELSE IF ~launcher
          THEN [none EXCEPT !.msg = "GameLauncher not attached."]
        ELSE LET l == launch(room_id, port, hasCmd, spawnOk, listenAt) IN
             [ok |-> l.ok, msg |-> l.msg, port |-> l.port,
              rooms |-> IF l.ok
                          THEN [rooms EXCEPT ![room_id].status = "running",
                                             ![room_id].port = l.port]
                          ELSE rooms,
              procs |-> l.procs, launched |-> TRUE, proc |-> l.proc,
              probes |-> l.probes]

StartRet(room_id, user, r) ==
    [Ret("start_game", room_id, user, r.ok)
       EXCEPT !.port = r.port, !.launched = r.launched, !.proc = r.proc,
              !.probes = r.probes]

start_game(room_id, port, hasCmd, spawnOk, listenAt) ==
    LET r == start_game_result(room_id, port, hasCmd, spawnOk, listenAt) IN
    /\ Len(r.procs) <= MaxProcs
    /\ rooms' = r.rooms
    /\ procs' = r.procs
    /\ ret' = StartRet(room_id, NoUser, r)
    /\ UNCHANGED <<accounts, workers, match, game, net, dir, next_room_id, invites, launcher>>

\* ------------------------------------------------------------ specification
RoomArgs == 1..MaxRooms

Next ==
    \/ attach_launcher
    \/ \E g \in GameIds, u \in Users, t \in RoomTypes, m \in 2..MaxCapacity :
          create_room(g, u, t, m)
    \/ \E r \in RoomArgs, u \in Users : join_room(r, u)
    \/ \E r \in RoomArgs, h \in Users, t \in Users : invite_user(r, h, t)
    \/ \E r \in RoomArgs, u \in Users : accept_invite(r, u)
    \/ \E r \in RoomArgs, h \in Users, t \in Users : revoke_invite(r, h, t)
    \/ \E r \in RoomArgs, p \in Ports, c \in BOOLEAN, s \in BOOLEAN,
          l \in 1..(MaxProbes + 1) : start_game(r, p, c, s, l)

Spec == Init /\ [][Next]_vars

TypeOK ==
    /\ next_room_id \in 1..(MaxRooms + 1)
    /\ DOMAIN rooms = 1..(next_room_id - 1)
    /\ \A r \in RoomIds : rooms[r].status \in {"waiting", "running"}
    /\ DOMAIN invites \subseteq RoomIds
    /\ Len(procs) <= MaxProcs

\* ------------------------------------------------------------ LobbyServer
BattleshipMaxPlayers == 8
BattleshipId == 1

\* dict.get(username) or []
Get(d, u) == IF u \in DOMAIN d THEN d[u] ELSE <<>>
Put(d, u, lst) == IF u \in DOMAIN d THEN [d EXCEPT ![u] = lst] ELSE d @@ (u :> lst)
Pop(d, u) == [x \in DOMAIN d \ {u} |-> d[x]]

\* list.remove(c): drops the first occurrence
ListRemove(lst, c) ==
    IF ~InSeq(c, lst) THEN lst
    ELSE LET i == CHOOSE k \in DOMAIN lst :
                     lst[k] = c /\ \A j \in 1..(k - 1) : lst[j] # c
         IN SubSeq(lst, 1, i - 1) \o SubSeq(lst, i + 1, Len(lst))

\* _add_client_conn: setdefault(username, []) and nothing else
add_client_conn(cli, username, conn) == Put(cli, username, Get(cli, username))

\* _add_monitor_conn
add_monitor_conn(mon, username, conn) ==
    LET lst == Get(mon, username) IN
    Put(mon, username, IF InSeq(conn, lst) THEN lst ELSE Append(lst, conn))

\* _remove_monitor_conn
remove_monitor_conn(mon, username, conn) ==
    LET mlist == Get(mon, username)
        rest == ListRemove(mlist, conn)
    IN  IF mlist = <<>> THEN mon
        ELSE IF rest = <<>> THEN Pop(mon, username)
        ELSE Put(mon, username, rest)

\* _remove_client_conn, on the pair of directories
remove_client_conn(cli, mon, username, conn) ==
    LET lst == Get(cli, username)
        rest == ListRemove(lst, conn)
    IN  IF lst = <<>> THEN [cli |-> cli, mon |-> mon]
        ELSE [cli |-> IF rest = <<>> THEN Pop(cli, username)
                      ELSE Put(cli, username, rest),
              mon |-> remove_monitor_conn(mon, username, conn)]

\* srv.accept(): connections are numbered in the order they are accepted
Accept(c) ==
    /\ conn_state[c] = "idle"
    /\ \A b \in Conns : b < c => conn_state[b] # "idle"
    /\ conn_state' = [conn_state EXCEPT ![c] = "open"]
    /\ ret' = Ret("accept", 0, NoUser, TRUE)
    /\ UNCHANGED <<accounts, workers, match, game, net, rooms, next_room_id, invites, launcher, procs,
                   conn_user, online, clients, monitors>>

\* AccountManager.login for a registered player; pwOk: the password matches
login_result(username, pwOk) ==
    IF ~pwOk THEN [ok |-> FALSE, msg |-> "wrong_password"]
    ELSE IF online[username] = "connected"
      THEN [ok |-> FALSE, msg |-> "already_logged_in"]
    ELSE [ok |-> TRUE, msg |-> "ok"]

\* handle_client, action "login"
Login(c, username, pwOk) ==
    LET r == login_result(username, pwOk) IN
    /\ conn_state[c] = "open"
    /\ online' = IF r.ok THEN [online EXCEPT ![username] = "connected"] ELSE online
    /\ conn_user' = IF r.ok THEN [conn_user EXCEPT ![c] = username] ELSE conn_user
    /\ clients' = IF r.ok THEN add_client_conn(clients, username, c) ELSE clients
    /\ ret' = Ret("login", 0, NoUser, r.ok)
    /\ UNCHANGED <<accounts, workers, match, game, net, rooms, next_room_id, invites, launcher, procs,
                   conn_state, monitors>>

\* handle_client, action "logout"
Logout(c) ==
    LET user == conn_user[c]
        d == remove_client_conn(clients, monitors, user, c)
    IN
    /\ conn_state[c] = "open"
    /\ online' = IF user # NoUser THEN [online EXCEPT ![user] = "none"] ELSE online
    /\ clients' = IF user # NoUser THEN d.cli ELSE clients
    /\ monitors' = IF user # NoUser THEN d.mon ELSE monitors
    /\ conn_user' = [conn_user EXCEPT ![c] = NoUser]
    /\ ret' = Ret("logout", 0, NoUser, TRUE)
    /\ UNCHANGED <<accounts, workers, match, game, net, rooms, next_room_id, invites, launcher, procs, conn_state>>

\* handle_client, action "identify"
Identify(c, uname, role) ==
    /\ conn_state[c] = "open"
    /\ monitors' = IF role = "monitor"
                     THEN add_monitor_conn(monitors, uname, c) ELSE monitors
    /\ clients' = IF role = "monitor"
                    THEN clients ELSE add_client_conn(clients, uname, c)
    /\ ret' = Ret("identify", 0, NoUser, TRUE)
    /\ UNCHANGED <<accounts, workers, match, game, net, rooms, next_room_id, invites, launcher, procs,
                   conn_state, conn_user, online>>

\* handle_client: recv returns None, the finally block runs, conn.close()
Disconnect(c) ==
    LET user == conn_user[c]
        d == remove_client_conn(clients, monitors, user, c)
    IN
    /\ conn_state[c] = "open"
    /\ conn_state' = [conn_state EXCEPT ![c] = "closed"]
    /\ online' = IF user # NoUser
                   THEN [online EXCEPT ![user] = "disconnected"] ELSE online
    /\ clients' = IF user # NoUser THEN d.cli ELSE clients
    /\ monitors' = IF user # NoUser THEN d.mon ELSE monitors
    /\ ret' = Ret("disconnect", 0, NoUser, TRUE)
    /\ UNCHANGED <<accounts, workers, match, game, net, rooms, next_room_id, invites, launcher, procs, conn_user>>

\* LobbyServer.create_room: the capacity it passes on
LobbyMaxPlayers(game_id) ==
    IF game_id = BattleshipId THEN BattleshipMaxPlayers ELSE DefaultMaxPlayers

\* LobbyServer.create_room(user, data)
HandleCreateRoom(c, game_id, room_type) ==
    /\ conn_state[c] = "open"
    /\ IF conn_user[c] = NoUser
         THEN /\ ret' = Ret("create_room", 0, NoUser, FALSE)
              /\ UNCHANGED <<accounts, workers, match, game, net, rooms, next_room_id, invites, launcher, procs, dir>>
         ELSE create_room(game_id, conn_user[c], room_type, LobbyMaxPlayers(game_id))

\* LobbyServer.join_room(user, data)
HandleJoinRoom(c, room_id) ==
    /\ conn_state[c] = "open"
    /\ IF conn_user[c] = NoUser
         THEN /\ ret' = Ret("join_room", room_id, NoUser, FALSE)
              /\ UNCHANGED <<accounts, workers, match, game, net, rooms, next_room_id, invites, launcher, procs, dir>>
         ELSE join_room(room_id, conn_user[c])

\* send(c, notify): raises on a connection whose socket the server has closed
SendOk(c) == conn_state[c] = "open"

Push(p, c, ok, room_id, port, game_id) ==
    [user |-> p, conn |-> c, ok |-> ok,
     room_id |-> room_id, port |-> port, game_id |-> game_id]

\* `for idx, c in enumerate(conns)`: conns is the list object registered for p,
\* lst its current content, idx the next position; a failed send prunes the
\* handle through _remove_monitor_conn, which shortens the list being iterated
\* when conns is monitors[p] (fromMon). d: the directories and the sends so far
RECURSIVE notify_conns(_, _, _, _, _, _)
notify_conns(p, lst, idx, fromMon, msg, d) ==
    IF idx > Len(lst) THEN d
    ELSE LET c == lst[idx] IN
         IF SendOk(c)
           THEN notify_conns(p, lst, idx + 1, fromMon, msg,
                  [d EXCEPT !.sent = Append(@,
                      Push(p, c, TRUE, msg.room_id, msg.port, msg.game_id))])
           ELSE notify_conns(p, IF fromMon THEN ListRemove(lst, c) ELSE lst,
                  idx + 1, fromMon, msg,
                  [d EXCEPT !.mon = remove_monitor_conn(d.mon, p, c),
                            !.sent = Append(@,
                      Push(p, c, FALSE, msg.room_id, msg.port, msg.game_id))])

\* `for p in room.players`: conns = monitors.get(p) or clients.get(p) or [],
\* the caller is skipped
RECURSIVE notify_players(_, _, _, _, _)
notify_players(players, i, user, msg, d) ==
    IF i > Len(players) THEN d
    ELSE LET p == players[i]
             fromMon == Get(d.mon, p) # <<>>
             conns == IF fromMon THEN Get(d.mon, p) ELSE Get(d.cli, p)
         IN  notify_players(players, i + 1, user, msg,
                 IF p = user THEN d
                 ELSE notify_conns(p, conns, 1, fromMon, msg, d))

\* the host check with the comparison left out
start_allowed_anyone(room_id, user) == room_id \in RoomIds

\* LobbyServer.start_game: the room exists and the caller is its host
start_allowed(room_id, user) ==
    room_id \in RoomIds /\ rooms[room_id].host = user

\* start_game with the notify loop outside any try: a failed push fails the call
HandleStartGame_raise(c, room_id, port, hasCmd, spawnOk, listenAt) ==
    LET user == conn_user[c]
        r == start_game_result(room_id, port, hasCmd, spawnOk, listenAt)
        msg == [room_id |-> room_id, port |-> r.port,
                game_id |-> rooms[room_id].game_id]
        d == notify_players(rooms[room_id].players, 1, user, msg,
                 [mon |-> monitors, cli |-> clients, sent |-> <<>>])
        pushed == \A i \in DOMAIN d.sent : d.sent[i].ok
    IN
    /\ conn_state[c] = "open"
    /\ IF ~start_allowed(room_id, user)
         THEN /\ ret' = Ret("start_game", room_id, user, FALSE)
              /\ UNCHANGED <<rooms, procs, clients, monitors>>
         ELSE /\ Len(r.procs) <= LobbyMaxProcs
              /\ rooms' = r.rooms
              /\ procs' = r.procs
              /\ monitors' = IF r.ok THEN d.mon ELSE monitors
              /\ clients' = IF r.ok THEN d.cli ELSE clients
              /\ ret' = [StartRet(room_id, user, r)
                           EXCEPT !.ok = r.ok /\ pushed,
                                  !.port = IF r.ok /\ pushed THEN r.port ELSE NoPort,
                                  !.sent = IF r.ok THEN d.sent ELSE <<>>]
    /\ UNCHANGED <<accounts, workers, match, game, net, next_room_id, invites, launcher, conn_state, conn_user, online>>

\* LobbyServer.start_game(user, data)
HandleStartGame(c, room_id, port, hasCmd, spawnOk, listenAt) ==
    LET user == conn_user[c]
        r == start_game_result(room_id, port, hasCmd, spawnOk, listenAt)
        msg == [room_id |-> room_id, port |-> r.port,
                game_id |-> rooms[room_id].game_id]
        d == notify_players(rooms[room_id].players, 1, user, msg,
                 [mon |-> monitors, cli |-> clients, sent |-> <<>>])
    IN
    /\ conn_state[c] = "open"
    /\ IF ~start_allowed(room_id, user)
         THEN /\ ret' = Ret("start_game", room_id, user, FALSE)
              /\ UNCHANGED <<rooms, procs, clients, monitors>>
         ELSE /\ Len(r.procs) <= LobbyMaxProcs
              /\ rooms' = r.rooms
              /\ procs' = r.procs
              /\ monitors' = IF r.ok THEN d.mon ELSE monitors
              /\ clients' = IF r.ok THEN d.cli ELSE clients
              /\ ret' = [StartRet(room_id, user, r)
                           EXCEPT !.sent = IF r.ok THEN d.sent ELSE <<>>]
    /\ UNCHANGED <<accounts, workers, match, game, net, next_room_id, invites, launcher, conn_state, conn_user, online>>

\* the chat_message push of one send to one handle
ChatPush(p, c, ok, room_id, user) ==
    [user |-> p, conn |-> c, ok |-> ok, room_id |-> room_id, from |-> user]

\* `for c in conns: try: send(c, notify) except Exception: pass`
chat_conns(p, conns, room_id, user) ==
    [k \in DOMAIN conns |-> ChatPush(p, conns[k], SendOk(conns[k]), room_id, user)]

\* `for p in room.players`: conns = monitors.get(p) or clients.get(p) or [];
\* the sender is not skipped
RECURSIVE chat_players(_, _, _, _)
chat_players(players, i, room_id, user) ==
    IF i > Len(players) THEN <<>>
    ELSE LET p == players[i]
             conns == IF Get(monitors, p) # <<>>
                        THEN Get(monitors, p) ELSE Get(clients, p)
         IN  chat_conns(p, conns, room_id, user)
                \o chat_players(players, i + 1, room_id, user)

\* RoomManager.send_chat: only a participant of an existing room may send
send_chat_result(room_id, username) ==
    IF room_id \notin RoomIds THEN [ok |-> FALSE, msg |-> "Room does not exist"]
    ELSE IF ~InSeq(username, rooms[room_id].players)
      THEN [ok |-> FALSE, msg |-> "User not in room"]
    ELSE [ok |-> TRUE, msg |-> "entry"]

\* handle_client, action "send_chat": the entry is appended to room.chat and
\* pushed to the participants' handles
HandleSendChat(c, room_id) ==
    LET user == conn_user[c]
        r == send_chat_result(room_id, user)
    IN
    /\ conn_state[c] = "open"
    /\ IF user = NoUser \/ ~r.ok
         THEN /\ ret' = Ret("send_chat", room_id, user, FALSE)
              /\ rooms' = rooms
         ELSE /\ Len(rooms[room_id].chat) < MaxChat
              /\ rooms' = [rooms EXCEPT ![room_id].chat = Append(@, user)]
              /\ ret' = [Ret("send_chat", room_id, user, TRUE)
                           EXCEPT !.sent = chat_players(rooms[room_id].players, 1,
                                                        room_id, user)]
    /\ UNCHANGED <<accounts, workers, match, game, net, next_room_id, invites, launcher, procs, dir>>

\* LobbyServer.__init__: the RoomManager gets its launcher at once
LobbyInit ==
    /\ rooms = <<>>
    /\ next_room_id = 1
    /\ invites = <<>>
    /\ launcher = TRUE
    /\ procs = <<>>
    /\ ret = Ret("init", 0, NoUser, TRUE)
    /\ conn_state = [c \in Conns |-> "idle"]
    /\ conn_user = [c \in Conns |-> NoUser]
    /\ online = [u \in Users |-> "none"]
    /\ clients = <<>>
    /\ monitors = <<>>
    /\ NetInit
    /\ GameIdle

ConnRoles == {"monitor", "player"}

\* the client behind each connection: the first connection is alice's, the
\* others are bob's (a primary and a notifier socket, or several notifiers);
\* a client names its own user in login and identify
Owner(c) == IF c = 1 THEN "alice" ELSE "bob"

\* what the launcher meets: the process listens at once, it never listens
\* before the deadline, it cannot be spawned
LobbyLaunchEnv ==
    {<<TRUE, TRUE, 1>>, <<TRUE, TRUE, MaxProbes + 1>>, <<TRUE, FALSE, 1>>}

NextLobby ==
    \/ \E c \in Conns : Accept(c)
    \/ \E c \in Conns, pw \in BOOLEAN : Login(c, Owner(c), pw)
    \/ \E c \in Conns : Logout(c)
    \/ \E c \in Conns, role \in ConnRoles : Identify(c, Owner(c), role)
    \/ \E c \in Conns : Disconnect(c)
    \/ \E c \in Conns : HandleCreateRoom(c, TetrisId, "public")
    \/ \E c \in Conns, r \in RoomArgs : HandleJoinRoom(c, r)
    \/ \E c \in Conns, r \in RoomArgs, p \in Ports, e \in LobbyLaunchEnv :
          HandleStartGame(c, r, p, e[1], e[2], e[3])
    \/ \E c \in Conns, r \in RoomArgs : HandleSendChat(c, r)

SpecLobby == LobbyInit /\ [][NextLobby]_vars

\* handle_client, action "resume", for a registered username
Resume(c, uname) ==
    /\ conn_state[c] = "open"
    /\ conn_user' = [conn_user EXCEPT ![c] = uname]
    /\ online' = [online EXCEPT ![uname] = "connected"]
    /\ clients' = add_client_conn(clients, uname, c)
    /\ ret' = Ret("resume", 0, NoUser, TRUE)
    /\ UNCHANGED <<accounts, workers, match, game, net, rooms, next_room_id, invites, launcher, procs,
                   conn_state, monitors>>

\* the connection directory alone, with resume
NextDirectory ==
    \/ \E c \in Conns : Accept(c)
    \/ \E c \in Conns, pw \in BOOLEAN : Login(c, Owner(c), pw)
    \/ \E c \in Conns : Logout(c)
    \/ \E c \in Conns, role \in ConnRoles : Identify(c, Owner(c), role)
    \/ \E c \in Conns : Resume(c, Owner(c))
    \/ \E c \in Conns : Disconnect(c)

SpecDirectory == LobbyInit /\ [][NextDirectory]_vars

\* ---------------------------------------------------- one framed connection
\* The connection whose byte stream is followed: its writing end is used by
\* the writer threads, its reading end by one recv loop (handle_client).
FC == 1

Min(a, b) == IF a < b THEN a ELSE b

\* the send() calls of threads 1..t so far
RECURSIVE Sends(_)
Sends(t) == IF t = 0 THEN 0 ELSE Len(sent[t]) + Sends(t - 1)

\* send(sock, obj), first write of sock.sendall(header + data): the kernel
\* takes the first k bytes, the rest stays with the thread
send(t, obj, k) ==
    /\ conn_state[FC] = "open" /\ ~wclosed
    /\ out[t] = <<>>
    /\ raw = 0
    /\ Sends(NumThreads) < MaxSends
    /\ Len(dumps(obj)) <= MAX_LEN
    /\ k \in 1..Len(frame(obj))
    /\ wire' = wire \o SubSeq(frame(obj), 1, k)
    /\ out' = [out EXCEPT ![t] = SubSeq(frame(obj), k + 1, Len(frame(obj)))]
    /\ sent' = [sent EXCEPT ![t] = Append(@, obj)]
    /\ UNCHANGED <<accounts, workers, match, game, rooms, next_room_id, invites, launcher, procs, ret, dir,
                   wclosed, raw, rd, delivered>>

\* sock.sendall, a further write of the bytes not yet taken
sendall_more(t, k) ==
    /\ conn_state[FC] = "open" /\ ~wclosed
    /\ out[t] # <<>>
    /\ k \in 1..Len(out[t])
    /\ wire' = wire \o SubSeq(out[t], 1, k)
    /\ out' = [out EXCEPT ![t] = SubSeq(@, k + 1, Len(@))]
    /\ UNCHANGED <<accounts, workers, match, game, rooms, next_room_id, invites, launcher, procs, ret, dir,
                   wclosed, sent, raw, rd, delivered>>

\* a peer that does not use send() writes a frame of its own making
send_rawframe(f) ==
    /\ conn_state[FC] = "open" /\ ~wclosed
    /\ raw < MaxRaw
    /\ Sends(NumThreads) = 0
    /\ wire' = wire \o f
    /\ raw' = raw + 1
    /\ UNCHANGED <<accounts, workers, match, game, rooms, next_room_id, invites, launcher, procs, ret, dir,
                   wclosed, out, sent, rd, delivered>>

\* the writing end closes its socket, possibly inside a frame
close_writer ==
    /\ conn_state[FC] = "open" /\ ~wclosed
    /\ wclosed' = TRUE
    /\ UNCHANGED <<accounts, workers, match, game, rooms, next_room_id, invites, launcher, procs, ret, dir,
                   wire, out, sent, raw, rd, delivered>>

\* recvall returning whatever the first sock.recv returned
recvall_done_once(buf, n) == Len(buf) >= 1

\* recvall: `while len(buf) < n` has ended
recvall_done(buf, n) == Len(buf) >= n

\* recv with `if length <= 0 or length > MAX_LEN: raise` left out
length_ok_unchecked(length) == TRUE

\* recv: the declared length passes `length <= 0 or length > MAX_LEN`
length_ok(length) == length > 0 /\ length <= MAX_LEN

\* recv after recvall returned buf: the state of the reader and what recv
\* returned to handle_client (status "error": it raised)
recv_next(r, buf) ==
    LET raised == [r EXCEPT !.buf = buf, !.status = "error"]
        body(b) == IF loads_ok(b)
                     THEN [rd |-> Reading, got |-> <<loads(b)>>]
                     ELSE [rd |-> [raised EXCEPT !.phase = "body"], got |-> <<>>]
    IN  IF r.phase = "header"
          THEN IF Len(buf) # HeaderSize \/ ~length_ok(unpack(buf))
                 THEN [rd |-> raised, got |-> <<>>]
               ELSE IF unpack(buf) = 0 THEN body(<<>>)
               ELSE [rd |-> [r EXCEPT !.phase = "body", !.need = unpack(buf),
                                      !.buf = <<>>],
                     got |-> <<>>]
          ELSE body(buf)

\* handle_client's finally block: mark_disconnected, _remove_client_conn,
\* conn.close()
handler_exit(c) ==
    LET user == conn_user[c]
        d == remove_client_conn(clients, monitors, user, c)
    IN
    /\ conn_state' = [conn_state EXCEPT ![c] = "closed"]
    /\ online' = IF user # NoUser
                   THEN [online EXCEPT ![user] = "disconnected"] ELSE online
    /\ clients' = IF user # NoUser THEN d.cli ELSE clients
    /\ monitors' = IF user # NoUser THEN d.mon ELSE monitors
    /\ UNCHANGED conn_user

\* one sock.recv(n - len(buf)) of recvall: it returns the bytes that have
\* arrived, at most the number asked for; when recvall has its n bytes recv
\* goes on: it checks the length, or decodes the body and returns the
\* object; if it raises, handle_client leaves through finally
recv_chunk ==
    LET k == Min(Len(wire), rd.need - Len(rd.buf))
        buf == rd.buf \o SubSeq(wire, 1, k)
        r == recv_next(rd, buf)
    IN
    /\ conn_state[FC] = "open" /\ rd.status = "reading"
    /\ wire # <<>>
    /\ wire' = SubSeq(wire, k + 1, Len(wire))
    /\ IF ~recvall_done(buf, rd.need)
         THEN /\ rd' = [rd EXCEPT !.buf = buf]
              /\ UNCHANGED <<delivered, ret, dir>>
         ELSE /\ rd' = r.rd
              /\ delivered' = delivered \o r.got
              /\ ret' = Ret("recv", 0, NoUser, r.rd.status = "reading")
              /\ IF r.rd.status = "error"
                   THEN handler_exit(FC) ELSE UNCHANGED dir
    /\ UNCHANGED <<accounts, workers, match, game, rooms, next_room_id, invites, launcher, procs,
                   wclosed, out, sent, raw>>

\* sock.recv returns b"": recvall and recv return None, handle_client breaks
\* out of its loop and leaves through finally
recv_eof ==
    /\ conn_state[FC] = "open" /\ rd.status = "reading"
    /\ wire = <<>> /\ wclosed
    /\ rd' = [rd EXCEPT !.status = "eof"]
    /\ ret' = Ret("recv", 0, NoUser, FALSE)
    /\ handler_exit(FC)
    /\ UNCHANGED <<accounts, workers, match, game, rooms, next_room_id, invites, launcher, procs,
                   wire, wclosed, out, sent, raw, delivered>>

NextFrame ==
    \/ \E c \in Conns : Accept(c)
    \/ \E t \in Threads, obj \in Objs : \E k \in 1..Len(frame(obj)) : send(t, obj, k)
    \/ \E t \in Threads : \E k \in 1..Len(out[t]) : sendall_more(t, k)
    \/ \E f \in RawFrames : send_rawframe(f)
    \/ close_writer
    \/ recv_chunk
    \/ recv_eof

SpecFrame == LobbyInit /\ [][NextFrame]_vars

\* ---------------------------------------------------------------------
\* Battleship match server, two copies of battleship_server.py:
\*   "u2"      player_client/downloads/u2/Battleship/1.0/server  (N seats, ring)
\*   "storage" server/game_storage/Battleship/1.0/server         (2 seats)
\* The lobby's catalogue (lobby_server.py:68) launches the storage copy.
\* One action is one pass of a loop of start(): a connection accepted by
\* await_players, the hand-over to the turn loop, one iteration of
\* relay_turn.  A peer that has gone away is conn = "dropped" until the
\* server notices and sets the seat's conn to None ("none").
\* ---------------------------------------------------------------------

Scripts == {"u2", "storage"}

min_players == 2
max_players == MaxSeats
StorageSeats == 2

Coords == 0 .. (BOARD_SIZE - 1)
Cells == Coords \X Coords

SHIP_SYMBOLS == {"C", "B", "S", "D"}

empty_board == [x \in Cells |-> "~"]

\* The board a client places: a two-cell ship, a one-cell ship, water.
Fleet ==
    [x \in Cells |-> IF x = <<0, 0>> \/ x = <<0, BOARD_SIZE - 1>> THEN "C"
                     ELSE IF x = <<BOARD_SIZE - 1, 0>> THEN "D" ELSE "~"]

ship_sunk_fleet(board, symbol) == \A x \in Cells : board[x] \notin SHIP_SYMBOLS

ship_sunk(board, symbol) == \A x \in Cells : board[x] # symbol

all_ships_sunk(board) == \A x \in Cells : board[x] \notin SHIP_SYMBOLS

\* What a connecting socket says first: a HELLO, nothing (the launcher's
\* _wait_for_port connects and closes), or some other message.
ConnKinds == {"hello", "probe", "other"}

Player(kind) ==
    [conn |-> IF kind = "probe" THEN "dropped" ELSE "open",
     hello |-> kind = "hello",
     placed |-> FALSE,
     board |-> empty_board]

Seats == 1 .. Len(bplayers)

\* The attack a prompted client answers with: coordinates (possibly out
\* of range), a message without usable row/col, or the empty object.
AttackVals == 0 .. BOARD_SIZE
Attacks ==
    [kind : {"coords"}, row : AttackVals, col : AttackVals]
        \cup {[kind |-> k, row |-> 0, col |-> 0] : k \in {"malformed", "empty"}}

in_range(a) == a.row \in Coords /\ a.col \in Coords

attack_kind(a) ==
    IF a.kind = "coords" THEN (IF in_range(a) THEN "cell" ELSE "range") ELSE a.kind

hit_symbol(cell) == IF cell \in SHIP_SYMBOLS THEN cell ELSE "-"

\* __main__: one of the two scripts is started on the match's port.
run_script(s) ==
    /\ phase = "idle"
    /\ script' = s
    /\ phase' = "seating"
    /\ last' = Last("run", 0, 0, "-")
    /\ UNCHANGED <<bplayers, alive, turn_pos, turn, drops>>
    /\ UNCHANGED <<rooms, next_room_id, invites, launcher, procs, ret, dir, net, tetris,
                   accounts, workers, match>>

\* A client process goes away (closed socket, crash, network loss).
drop(i) ==
    /\ phase \in {"seating", "playing"}
    /\ drops < MaxDrops
    /\ i \in Seats
    /\ bplayers[i].conn = "open"
    /\ bplayers' = [bplayers EXCEPT ![i].conn = "dropped"]
    /\ drops' = drops + 1
    /\ UNCHANGED <<script, phase, alive, turn_pos, turn, last>>
    /\ UNCHANGED <<rooms, next_room_id, invites, launcher, procs, ret, dir, net, tetris,
                   accounts, workers, match>>

\* u2 await_players, one pass of the accept loop (85-121): a connection
\* whose first message is not a HELLO is closed and not seated.
await_players_u2(kind) ==
    /\ Len(bplayers) < max_players
    /\ bplayers' = IF kind = "hello" THEN Append(bplayers, Player(kind)) ELSE bplayers
    /\ last' = Last("accept", IF kind = "hello" THEN Len(bplayers) + 1 ELSE 0, 0, kind)
    /\ UNCHANGED <<script, phase, alive, turn_pos, turn, drops>>

\* storage await_players (115-125): the next connection accepted is the
\* next seat, whatever recv_json returned for its first message.
\* Its ASSIGN (119, 125) is an unguarded send_json: on a connection already
\* reset it raises, and start()'s except ends the match.
await_players_storage(kind, raised) ==
    /\ Len(bplayers) < StorageSeats
    /\ bplayers' = Append(bplayers, Player(kind))
    /\ phase' = IF kind = "probe" /\ raised THEN "over" ELSE phase
    /\ last' = Last(IF kind = "probe" /\ raised THEN "raise" ELSE "accept",
                    Len(bplayers) + 1, 0, kind)
    /\ UNCHANGED <<script, alive, turn_pos, turn, drops>>

await_players(kind, raised) ==
    /\ phase = "seating"
    /\ IF script = "u2" THEN await_players_u2(kind)
                        ELSE await_players_storage(kind, raised)
    /\ UNCHANGED <<rooms, next_room_id, invites, launcher, procs, ret, dir, net, tetris,
                   accounts, workers, match>>

\* receive_board: recv_json returns None on a closed connection, and the
\* seat's board stays None.
receive_board(p) ==
    IF p.conn = "open" THEN [p EXCEPT !.placed = TRUE, !.board = Fleet] ELSE p

\* The seating is over (u2: grace window elapsed with >= min_players, or
\* max_players seated; storage: two connections accepted); start() reads
\* one board per seat and enters relay_turn.
\* u2 sends its ASSIGNs here (130-136, unguarded: a reset connection
\* raises out of start()), and relay_turn 160-165 builds alive from the
\* seats with a board and returns when there are fewer than 2.
receive_boards(raised) ==
    /\ phase = "seating"
    /\ IF script = "u2" THEN Len(bplayers) >= min_players
                        ELSE Len(bplayers) = StorageSeats
    /\ LET bs == [i \in Seats |-> receive_board(bplayers[i])]
           al == SelectSeq([i \in Seats |-> i], LAMBDA i : bs[i].placed)
           dead == /\ script = "u2" /\ raised
                   /\ \E i \in Seats : bplayers[i].conn = "dropped"
       IN  /\ bplayers' = IF dead THEN bplayers ELSE bs
           /\ alive' = IF script = "u2" /\ ~dead THEN al ELSE <<>>
           /\ phase' = IF dead \/ (script = "u2" /\ Len(al) < min_players)
                       THEN "over" ELSE "playing"
           /\ last' = Last(IF dead THEN "raise" ELSE "boards", 0, 0, "-")
    /\ turn_pos' = 0
    /\ turn' = 1
    /\ UNCHANGED <<script, drops>>
    /\ UNCHANGED <<rooms, next_room_id, invites, launcher, procs, ret, dir, net, tetris,
                   accounts, workers, match>>

\* The cell rule shared by both copies (u2 222-234, storage 175-193).
cell_result(cell) ==
    IF cell \in SHIP_SYMBOLS THEN "HIT"
    ELSE IF cell = "X" \/ cell = "o" THEN "REPEAT" ELSE "MISS"

cell_mark(cell) ==
    IF cell \in SHIP_SYMBOLS THEN "X"
    ELSE IF cell = "X" \/ cell = "o" THEN cell ELSE "o"

\* u2 relay_turn, one iteration of the while loop (167-254).
relay_turn_u2(a) ==
    LET al == SelectSeq(alive, LAMBDA i : bplayers[i].conn # "none")
        tp == IF turn_pos >= Len(al) THEN 0 ELSE turn_pos
    IN  IF Len(al) = 0
        THEN /\ phase' = "over"
             /\ last' = Last("return", 0, 0, "-")
             /\ alive' = al
             /\ UNCHANGED <<bplayers, turn_pos, drops>>
        ELSE IF Len(al) = 1
        THEN /\ phase' = "over"
             /\ last' = [Last("walkover", 0, 0, "-") EXCEPT !.win = {al[1]}]
             /\ alive' = al
             /\ UNCHANGED <<bplayers, turn_pos, drops>>
        ELSE
        LET attacker_idx == al[tp + 1]
            defender_idx == al[((tp + 1) % Len(al)) + 1]
            defender_board == bplayers[defender_idx].board
            x == <<a.row, a.col>>
        IN  /\ alive' = al
            /\ IF bplayers[attacker_idx].conn = "dropped" \/ a.kind = "empty"
               THEN \* _safe_send failed, or recv_json gave None / a falsy value
                    /\ drops' = IF a.kind = "empty" /\ bplayers[attacker_idx].conn = "open"
                                THEN drops + 1 ELSE drops
                    /\ bplayers' = [bplayers EXCEPT ![attacker_idx].conn = "none"]
                    /\ turn_pos' = tp
                    /\ phase' = phase
                    /\ last' = [Last("lost", attacker_idx, defender_idx, "-")
                                  EXCEPT !.your_turn = bplayers[attacker_idx].conn = "open"]
               ELSE IF a.kind = "malformed" \/ ~in_range(a)
               THEN /\ turn_pos' = tp
                    /\ phase' = phase
                    /\ bplayers' = bplayers
                    /\ drops' = drops
                    /\ last' = [Last("turn", attacker_idx, defender_idx, "REPEAT")
                                  EXCEPT !.your_turn = TRUE, !.kind = attack_kind(a)]
               ELSE LET result == cell_result(defender_board[x])
                        board2 == [defender_board EXCEPT ![x] = cell_mark(@)]
                        won == result = "HIT" /\ ship_sunk(board2, defender_board[x])
                    IN  /\ bplayers' = [bplayers EXCEPT ![defender_idx].board = board2]
                        /\ drops' = drops
                        /\ turn_pos' = IF won THEN tp ELSE tp + 1
                        /\ phase' = IF won THEN "over" ELSE phase
                        /\ last' = [Last("turn", attacker_idx, defender_idx, result)
                                      EXCEPT !.your_turn = TRUE,
                                             !.kind = attack_kind(a),
                                             !.symbol = hit_symbol(defender_board[x]),
                                             !.incoming = TRUE,
                                             !.win = IF won THEN {attacker_idx} ELSE {},
                                             !.lose = IF won
                                                      THEN {i \in Seats :
                                                              /\ bplayers[i].conn # "none"
                                                              /\ i # attacker_idx}
                                                      ELSE {}]

\* storage relay_turn, one iteration (147-237).  send_json is not guarded:
\* a send to a connection the peer has reset raises (raised), and so do a
\* message without row/col and a defender without a board; start()'s
\* except ends the match.
relay_turn_storage(a, raised) ==
    LET attacker == turn
        defender == IF turn = 1 THEN 2 ELSE 1
        defender_board == bplayers[defender].board
        x == <<a.row, a.col>>
        dead == bplayers[defender].conn = "dropped" /\ raised
    IN  /\ UNCHANGED <<alive, turn_pos, drops>>
        /\ IF bplayers[attacker].conn = "dropped" \/ a.kind = "empty"
           THEN /\ phase' = "over"
                /\ last' = [Last("lost", attacker, defender, "-")
                              EXCEPT !.your_turn = bplayers[attacker].conn = "open"]
                /\ UNCHANGED <<bplayers, turn>>
           ELSE IF a.kind = "malformed" \/ (in_range(a) /\ ~bplayers[defender].placed)
           THEN /\ phase' = "over"
                /\ last' = [Last("raise", attacker, defender, "-")
                              EXCEPT !.your_turn = TRUE, !.kind = attack_kind(a)]
                /\ UNCHANGED <<bplayers, turn>>
           ELSE LET result == IF in_range(a) THEN cell_result(defender_board[x])
                              ELSE "INVALID"
                    board2 == IF in_range(a)
                              THEN [defender_board EXCEPT ![x] = cell_mark(@)]
                              ELSE defender_board
                    won == \/ result = "HIT" /\ ship_sunk(board2, defender_board[x])
                           \/ result # "INVALID" /\ all_ships_sunk(board2)
                IN  /\ bplayers' = [bplayers EXCEPT ![defender].board = board2]
                    /\ phase' = IF dead \/ won THEN "over" ELSE phase
                    /\ turn' = IF dead \/ won THEN turn ELSE defender
                    /\ last' = [Last(IF dead THEN "raise" ELSE "turn",
                                     attacker, defender, result)
                                  EXCEPT !.your_turn = TRUE,
                                         !.kind = attack_kind(a),
                                         !.symbol = IF in_range(a)
                                                    THEN hit_symbol(defender_board[x])
                                                    ELSE "-",
                                         !.incoming = ~dead,
                                         !.win = IF won /\ ~dead THEN {attacker} ELSE {},
                                         !.lose = IF won /\ ~dead THEN {defender} ELSE {}]

relay_turn(a, raised) ==
    /\ phase = "playing"
    /\ a.kind = "empty" => drops < MaxDrops
    /\ IF script = "u2"
       THEN relay_turn_u2(a) /\ UNCHANGED turn
       ELSE relay_turn_storage(a, raised)
    /\ UNCHANGED script
    /\ UNCHANGED <<rooms, next_room_id, invites, launcher, procs, ret, dir, net, tetris,
                   accounts, workers, match>>

NextBattleship ==
    \/ \E s \in Scripts : run_script(s)
    \/ \E k \in ConnKinds, raised \in BOOLEAN : await_players(k, raised)
    \/ \E raised \in BOOLEAN : receive_boards(raised)
    \/ \E i \in 1 .. MaxSeats : drop(i)
    \/ \E a \in Attacks :
          \E raised \in (IF script = "storage" THEN BOOLEAN ELSE {FALSE}) :
             relay_turn(a, raised)

SpecBattleship == LobbyInit /\ [][NextBattleship]_vars

\* The server loops without waiting on anything but its sockets, and the
\* prompted client answers with an attack on a cell of the board.
answered_turn ==
    \E a \in Attacks : a.kind = "coords" /\ in_range(a) /\ relay_turn(a, FALSE)

SpecBattleshipFair == SpecBattleship /\ WF_vars(answered_turn)

\* ---------------------------------------------------------------------
\* Tetris match server (server/game_storage/Tetris/1.0/server/game_server.py).
\* The grid and the shapes (shapes.py) are not modelled: what collides()
\* and the full-row scan of lock_piece find is an input of the step, a
\* lock clearing at most as many rows as the piece is high.
\* ---------------------------------------------------------------------

Pieces == {"I", "P"}

SpawnX == 3
Rotations == 4
POWER_SCORE == 50
LinesPerCharge == 2
LineScore_flat == <<0, 100, 300, 500, 500>>

LineScore == <<0, 100, 300, 500, 800>>

Acts == {"LEFT", "RIGHT", "ROTATE_CW", "HARD_DROP", "HOLD", "FLASH"}

\* the actions the clients send in a run: P1 plays, P2 only flashes
Sent(p) == IF p = "P1" THEN {"LEFT", "HARD_DROP", "HOLD", "FLASH"} ELSE {"FLASH"}

\* the row counts of the locks of a run in which the clients send
\* all of Sent: none, or the rows of one charge
FewClears == {0, LinesPerCharge}

\* rows one piece can complete: 'P' uses the 2x2 cells of 'O', 'I' is 4 long
MaxRows(p) == IF p = "P" THEN 2 ELSE Len(LineScore) - 1

Spawned(p) == [p |-> p, x |-> SpawnX, r |-> 0]

\* spawn_piece (49-56): nxt is the head of the queue, coll is collides()
spawn_piece(s, nxt, coll) ==
    [s EXCEPT !.active = Spawned(nxt),
              !.hold_used = FALSE,
              !.alive = IF coll THEN FALSE ELSE @]

grant_flash_charges_always(s) ==
    [s EXCEPT !.flash_charges = @ + 1]

\* _grant_flash_charges (82-87)
grant_flash_charges(s) ==
    LET g == s.lines \div LinesPerCharge
    IN  IF g > s.flash_granted
        THEN [s EXCEPT !.flash_charges = @ + (g - s.flash_granted),
                       !.flash_granted = g]
        ELSE s

\* what a lock finds: rows completed, the next piece of the queue, the
\* coin of _apply_power_on_lock; the spawned piece does not collide (the
\* grid does not fill up within MaxLocks pieces)
LockOutcomes(p, C) ==
    [cleared : (0 .. MaxRows(p)) \cap C, nxt : Pieces,
     freeze : IF p = "P" THEN BOOLEAN ELSE {FALSE}, coll : {FALSE}]

\* lock_piece (89-117) on the players' states S
lock_piece(S, me, o) ==
    LET p == S[me].active.p
        s1 == [S[me] EXCEPT !.board = @ + 1,
                            !.lines = @ + o.cleared,
                            !.score = @ + LineScore[o.cleared + 1],
                            !.cleared_recent = o.cleared]
        s2 == IF o.cleared > 0 THEN grant_flash_charges(s1) ELSE s1
        s3 == IF p = "P" THEN [s2 EXCEPT !.score = @ + POWER_SCORE] ELSE s2
    IN  [S EXCEPT ![me] = spawn_piece(s3, o.nxt, o.coll),
                  ![Opp(me)].frozen = IF p = "P" /\ o.freeze THEN TRUE ELSE @]

do_hold_again(s, nxt, coll) ==
    IF s.active = NoActive
    THEN s
    ELSE IF s.hold = NoPiece
    THEN spawn_piece([s EXCEPT !.hold = s.active.p, !.active = NoActive], nxt, coll)
    ELSE [s EXCEPT !.hold = s.active.p,
                   !.active = Spawned(s.hold),
                   !.alive = IF coll THEN FALSE ELSE @]

\* do_hold (119-137)
do_hold(s, nxt, coll) ==
    IF s.active = NoActive \/ s.hold_used
    THEN s
    ELSE IF s.hold = NoPiece
    THEN [spawn_piece([s EXCEPT !.hold = s.active.p, !.active = NoActive], nxt, coll)
            EXCEPT !.hold_used = TRUE]
    ELSE [s EXCEPT !.hold = s.active.p,
                   !.active = Spawned(s.hold),
                   !.alive = IF coll THEN FALSE ELSE @,
                   !.hold_used = TRUE]

\* move (139-145): the piece collides beyond MaxShift columns from its spawn
move(s, dx) ==
    LET nx == s.active.x + dx
    IN  IF s.active = NoActive \/ nx < SpawnX - MaxShift \/ nx > SpawnX + MaxShift
        THEN s
        ELSE [s EXCEPT !.active.x = nx]

\* rotate (147-153)
rotate(s) ==
    IF s.active = NoActive
    THEN s
    ELSE [s EXCEPT !.active.r = IF s.active.p # "P" THEN (@ + 1) % Rotations ELSE 0]

flash_free(S, me) ==
    IF S[me].flash_charges > 0 /\ ~S[Opp(me)].frozen
    THEN [S EXCEPT ![Opp(me)].frozen = TRUE]
    ELSE S

\* input_loop, FLASH (341-348)
flash(S, me) ==
    IF S[me].flash_charges > 0 /\ ~S[Opp(me)].frozen
    THEN [S EXCEPT ![me].flash_charges = @ - 1, ![Opp(me)].frozen = TRUE]
    ELSE S

\* charges added by a step from S to T
Granted(S, T) ==
    [p \in TPlayers |-> granted[p] + (IF T[p].flash_charges > S[p].flash_charges
                                     THEN T[p].flash_charges - S[p].flash_charges
                                     ELSE 0)]

\* the lock of player p's piece in a step from S to T, as the clients see it
LockSeen(S, T, p, o) ==
    [who |-> p, piece |-> S[p].active.p, cleared |-> o.cleared,
     award |-> T[p].score - S[p].score]

\* handle_game 282-354: two players have said HELLO, their first pieces
\* are spawned and the input threads start.
start_match(n1, n2) ==
    /\ tphase = "idle"
    /\ tphase' = "running"
    /\ pstate' = [pstate EXCEPT !["P1"] = spawn_piece(@, n1, FALSE),
                                !["P2"] = spawn_piece(@, n2, FALSE)]
    /\ inp' = [p \in TPlayers |-> "recv"]
    /\ UNCHANGED <<granted, tried, lastlock, nlocks>>
    /\ UNCHANGED <<rooms, next_room_id, invites, launcher, procs, ret, dir, net, bship,
                   accounts, workers, match>>

\* input_loop 323-328: one INPUT message is read; while the player is
\* frozen it is ignored, otherwise the thread goes on to take game.lock.
input_recv(p, act) ==
    /\ tphase = "running"
    /\ act \in Acts
    /\ inp[p] = "recv"
    /\ inp' = IF pstate[p].frozen THEN inp ELSE [inp EXCEPT ![p] = act]
    /\ UNCHANGED <<pstate, granted, tried, lastlock, nlocks, tphase>>
    /\ UNCHANGED <<rooms, next_room_id, invites, launcher, procs, ret, dir, net, bship,
                   accounts, workers, match>>

\* the action of one INPUT on the players' states (330-348)
act_result(S, p, act, o) ==
    IF act = "LEFT" THEN [S EXCEPT ![p] = move(@, 0 - 1)]
    ELSE IF act = "RIGHT" THEN [S EXCEPT ![p] = move(@, 1)]
    ELSE IF act = "ROTATE_CW" THEN [S EXCEPT ![p] = rotate(@)]
    ELSE IF act = "HARD_DROP" THEN lock_piece(S, p, o)
    ELSE IF act = "HOLD" THEN [S EXCEPT ![p] = do_hold(@, o.nxt, o.coll)]
    ELSE flash(S, p)

NoOutcome == [cleared |-> 0, nxt |-> "I", freeze |-> FALSE, coll |-> FALSE]

\* what the action draws from the queue and the grid
ActOutcomes(p, act, C) ==
    IF act = "HARD_DROP" THEN LockOutcomes(pstate[p].active.p, C)
    ELSE IF act = "HOLD" THEN [cleared : {0}, nxt : Pieces, freeze : {FALSE}, coll : {FALSE}]
    ELSE {NoOutcome}

\* input_loop 329-348: the thread holds game.lock and applies the action.
input_apply(p, o) ==
    /\ tphase = "running"
    /\ inp[p] \in Acts
    /\ inp[p] = "HARD_DROP" => nlocks < MaxLocks
    /\ pstate' = act_result(pstate, p, inp[p], o)
    /\ nlocks' = IF inp[p] = "HARD_DROP" THEN nlocks + 1 ELSE nlocks
    /\ lastlock' = IF inp[p] = "HARD_DROP"
                   THEN LockSeen(pstate, pstate', p, o) ELSE lastlock
    /\ tried' = [tried EXCEPT ![p] = IF inp[p] = "HARD_DROP" THEN FALSE
                                     ELSE IF inp[p] = "HOLD" THEN TRUE ELSE @]
    /\ granted' = Granted(pstate, pstate')
    /\ inp' = [inp EXCEPT ![p] = "recv"]
    /\ UNCHANGED tphase
    /\ UNCHANGED <<rooms, next_room_id, invites, launcher, procs, ret, dir, net, bship,
                   accounts, workers, match>>

\* time passes beyond freeze_until
thaw(p) ==
    /\ tphase = "running"
    /\ pstate[p].frozen
    /\ pstate' = [pstate EXCEPT ![p].frozen = FALSE]
    /\ UNCHANGED <<inp, granted, tried, lastlock, nlocks, tphase>>
    /\ UNCHANGED <<rooms, next_room_id, invites, launcher, procs, ret, dir, net, bship,
                   accounts, workers, match>>

\* Game.tick (155-163) of one player: the piece moves down, or is locked
\* when the cell below collides.
tick(S, p, blocked, o) ==
    IF S[p].active = NoActive \/ ~blocked THEN S ELSE lock_piece(S, p, o)

TickOutcomes(p, blocked, C) ==
    IF blocked THEN LockOutcomes(pstate[p].active.p, C) ELSE {NoOutcome}

\* the tick loop 394-405: under game.lock each living player is ticked,
\* P1 first, and the match is over when at most one player lives.
tick_loop(b1, b2, C) ==
    /\ tphase = "running"
    /\ nlocks < MaxLocks
    /\ \E o1 \in TickOutcomes("P1", b1, C), o2 \in TickOutcomes("P2", b2, C) :
         LET S1 == IF pstate["P1"].alive THEN tick(pstate, "P1", b1, o1) ELSE pstate
             l1 == pstate["P1"].alive /\ b1
             S2 == IF S1["P2"].alive THEN tick(S1, "P2", b2, o2) ELSE S1
             l2 == S1["P2"].alive /\ b2
             h1 == IF l1 THEN LockSeen(pstate, S1, "P1", o1) ELSE lastlock
             h2 == IF l2 THEN LockSeen(S1, S2, "P2", o2) ELSE h1
             n == (IF l1 THEN 1 ELSE 0) + (IF l2 THEN 1 ELSE 0)
         IN  /\ n > 0
             /\ nlocks + n <= MaxLocks
             /\ pstate' = S2
             /\ nlocks' = nlocks + n
             /\ lastlock' = h2
             /\ tried' = [p \in TPlayers |->
                            IF (p = "P1" /\ l1) \/ (p = "P2" /\ l2)
                            THEN FALSE ELSE tried[p]]
             /\ granted' = Granted(pstate, S2)
             /\ tphase' = IF Cardinality({q \in TPlayers : S2[q].alive}) <= 1
                          THEN "over" ELSE tphase
    /\ UNCHANGED inp
    /\ UNCHANGED <<rooms, next_room_id, invites, launcher, procs, ret, dir, net, bship,
                   accounts, workers, match>>

AllClears == 0 .. (Len(LineScore) - 1)

\* a match in which the clients move, hold and flash
NextTetris ==
    \/ \E n1 \in Pieces, n2 \in Pieces : start_match(n1, n2)
    \/ \E p \in TPlayers : \E act \in Sent(p) : input_recv(p, act)
    \/ \E p \in TPlayers : \E o \in ActOutcomes(p, inp[p], FewClears) : input_apply(p, o)
    \/ \E p \in TPlayers : thaw(p)
    \/ \E b1 \in BOOLEAN, b2 \in BOOLEAN : tick_loop(b1, b2, FewClears)

SpecTetris == LobbyInit /\ [][NextTetris]_vars

\* a match in which pieces only fall or are dropped, with every row count
NextTetrisLocks ==
    \/ \E n1 \in Pieces, n2 \in Pieces : start_match(n1, n2)
    \/ \E p \in TPlayers : input_recv(p, "HARD_DROP")
    \/ \E p \in TPlayers : \E o \in ActOutcomes(p, inp[p], AllClears) : input_apply(p, o)
    \/ \E p \in TPlayers : thaw(p)
    \/ \E b1 \in BOOLEAN, b2 \in BOOLEAN : tick_loop(b1, b2, AllClears)

SpecTetrisLocks == LobbyInit /\ [][NextTetrisLocks]_vars

\* ---------------------------------------------------------------------
\* Two rooms that wait with two participants each, the launcher attached:
\* the registry after create_room and join_room for both rooms.
\* ---------------------------------------------------------------------
TwoRooms ==
    <<[Room(TetrisId, "alice", "public", 2) EXCEPT !.players = <<"alice", "bob">>],
      [Room(TetrisId, "bob", "public", 2) EXCEPT !.players = <<"bob", "alice">>]>>

InitTwoRooms ==
    /\ rooms = TwoRooms
    /\ next_room_id = Len(TwoRooms) + 1
    /\ invites = <<>>
    /\ launcher = TRUE
    /\ procs = <<>>
    /\ ret = Ret("attach_launcher", 0, NoUser, TRUE)
    /\ conn_state = [c \in Conns |-> "idle"]
    /\ conn_user = [c \in Conns |-> NoUser]
    /\ online = [u \in Users |-> "none"]
    /\ clients = <<>>
    /\ monitors = <<>>
    /\ NetInit
    /\ GameIdle

\* start_game for either room, and joins that come too late
NextTwoRooms ==
    \/ \E r \in DOMAIN TwoRooms, p \in Ports, c \in BOOLEAN, s \in BOOLEAN,
          l \in 1..(MaxProbes + 1) : start_game(r, p, c, s, l)
    \/ \E r \in DOMAIN TwoRooms, u \in Users : join_room(r, u)

SpecTwoRooms == InitTwoRooms /\ [][NextTwoRooms]_vars

\* ---------------------------------------------------------------------
\* AccountManager (server/account_manager.py): the session table.
\* The stores are fixed: alice is a player and a developer, root is a
\* player with the admin flag, dev1 is a developer, ghost is registered
\* nowhere.
\* ---------------------------------------------------------------------
PlayerAccounts == {"alice", "root"}
AdminAccounts == {"root"}
DeveloperAccounts == {"dev1", "alice"}

LoginRoles == {"player", "developer", "admin"}

\* _get_store (93-97)
get_store(role) == IF role = "player" THEN PlayerAccounts ELSE DeveloperAccounts

\* the credentials name an account of the store and its password
valid_login(username, pw_ok, role) ==
    /\ role \in {"player", "developer"}
    /\ username \in get_store(role)
    /\ pw_ok

am_login_result_dup(U, username, pw_ok, role) ==
    IF role \notin {"player", "developer"}
    THEN [ok |-> FALSE, msg |-> "invalid_role", users |-> U]
    ELSE IF username \notin get_store(role)
    THEN [ok |-> FALSE, msg |-> "user_not_found", users |-> U]
    ELSE IF ~pw_ok
    THEN [ok |-> FALSE, msg |-> "wrong_password", users |-> U]
    ELSE [ok |-> TRUE, msg |-> "ok",
          users |-> [U EXCEPT ![username] =
                       Session(IF role = "player" /\ username \in AdminAccounts
                               THEN "admin" ELSE role, TRUE)]]

\* AccountManager.login (255-281) on the session table U
am_login_result(U, username, pw_ok, role) ==
    IF role \notin {"player", "developer"}
    THEN [ok |-> FALSE, msg |-> "invalid_role", users |-> U]
    ELSE IF username \notin get_store(role)
    THEN [ok |-> FALSE, msg |-> "user_not_found", users |-> U]
    ELSE IF ~pw_ok
    THEN [ok |-> FALSE, msg |-> "wrong_password", users |-> U]
    ELSE IF U[username].present /\ U[username].connected
    THEN [ok |-> FALSE, msg |-> "already_logged_in", users |-> U]
    ELSE [ok |-> TRUE, msg |-> "ok",
          users |-> [U EXCEPT ![username] =
                       Session(IF role = "player" /\ username \in AdminAccounts
                               THEN "admin" ELSE role, TRUE)]]

am_login(username, pw_ok, role) ==
    LET r == am_login_result(online_users, username, pw_ok, role)
    IN  /\ online_users' = r.users
        /\ acct_ret' = AcctRet("login", username, valid_login(username, pw_ok, role),
                               r.ok, r.msg, online_users[username])
        /\ UNCHANGED <<rooms, next_room_id, invites, launcher, procs, ret, dir, net,
                       game, workers, match>>

\* AccountManager.logout (283-285)
am_logout(username) ==
    /\ online_users' = [online_users EXCEPT ![username] = NoSession]
    /\ acct_ret' = AcctRet("logout", username, FALSE, TRUE, "-", online_users[username])
    /\ UNCHANGED <<rooms, next_room_id, invites, launcher, procs, ret, dir, net,
                   game, workers, match>>

\* AccountManager.mark_disconnected (287-300)
am_mark_disconnected(username) ==
    /\ online_users' =
         IF online_users[username].present
         THEN [online_users EXCEPT ![username].connected = FALSE]
         ELSE [online_users EXCEPT ![username] =
                 Session(IF username \in DeveloperAccounts
                         THEN "developer" ELSE "player", FALSE)]
    /\ acct_ret' = AcctRet("mark_disconnected", username, FALSE, TRUE, "-",
                           online_users[username])
    /\ UNCHANGED <<rooms, next_room_id, invites, launcher, procs, ret, dir, net,
                   game, workers, match>>

\* _cleanup_loop (101-114): a disconnected session older than GRACE_PERIOD
\* is removed
am_cleanup_loop(username) ==
    /\ online_users[username].present
    /\ ~online_users[username].connected
    /\ online_users' = [online_users EXCEPT ![username] = NoSession]
    /\ acct_ret' = AcctRet("cleanup", username, FALSE, TRUE, "-", online_users[username])
    /\ UNCHANGED <<rooms, next_room_id, invites, launcher, procs, ret, dir, net,
                   game, workers, match>>

NextAccounts ==
    \/ \E u \in Accounts, pw_ok \in BOOLEAN, role \in LoginRoles : am_login(u, pw_ok, role)
    \/ \E u \in Accounts : am_logout(u)
    \/ \E u \in Accounts : am_mark_disconnected(u)
    \/ \E u \in Accounts : am_cleanup_loop(u)

SpecAccounts == LobbyInit /\ [][NextAccounts]_vars

\* ---------------------------------------------------------------------
\* RoomManager called from the connection workers (LobbyServer.start
\* starts one thread per connection, lobby_server.py:300-303; neither
\* handle_client nor RoomManager takes a lock).  A call is split where
\* another thread can run: between the checks and the append of join_room
\* and accept_invite, between the read and the update of next_room_id.
\* ---------------------------------------------------------------------

\* join_room 49-62: the checks
w_join_check(w, room_id, username) ==
    /\ wk[w].pc = "idle"
    /\ IF join_room_result(room_id, username).ok
       THEN /\ wk' = [wk EXCEPT ![w] = [IdleWorker EXCEPT !.pc = "join", !.room = room_id,
                                                          !.user = username]]
            /\ UNCHANGED ret
       ELSE /\ ret' = Ret("join_room", room_id, username, FALSE)
            /\ UNCHANGED wk
    /\ UNCHANGED <<rooms, next_room_id, invites, launcher, procs, dir, net, game,
                   accounts, match, made>>

\* join_room 65-66: room.players.append(username)
w_join_append(w) ==
    /\ wk[w].pc = "join"
    /\ rooms' = [rooms EXCEPT ![wk[w].room].players = Append(@, wk[w].user)]
    /\ ret' = Ret("join_room", wk[w].room, wk[w].user, TRUE)
    /\ wk' = [wk EXCEPT ![w] = IdleWorker]
    /\ UNCHANGED <<next_room_id, invites, launcher, procs, dir, net, game,
                   accounts, match, made>>

\* accept_invite 100-108: the checks
w_accept_check(w, room_id, username) ==
    /\ wk[w].pc = "idle"
    /\ IF accept_invite_result(room_id, username).ok
       THEN /\ wk' = [wk EXCEPT ![w] = [IdleWorker EXCEPT !.pc = "accept", !.room = room_id,
                                                          !.user = username]]
            /\ UNCHANGED ret
       ELSE /\ ret' = Ret("accept_invite", room_id, username, FALSE)
            /\ UNCHANGED wk
    /\ UNCHANGED <<rooms, next_room_id, invites, launcher, procs, dir, net, game,
                   accounts, match, made>>

\* accept_invite 109-112: the append and the discard of the invite
w_accept_append(w) ==
    /\ wk[w].pc = "accept"
    /\ rooms' = [rooms EXCEPT ![wk[w].room].players = Append(@, wk[w].user)]
    /\ invites' = [invites EXCEPT ![wk[w].room] = @ \ {wk[w].user}]
    /\ ret' = Ret("accept_invite", wk[w].room, wk[w].user, TRUE)
    /\ wk' = [wk EXCEPT ![w] = IdleWorker]
    /\ UNCHANGED <<next_room_id, launcher, procs, dir, net, game, accounts, match, made>>

\* create_room 36: room_id = self.next_room_id
w_create_read(w, username, room_type, cap) ==
    /\ wk[w].pc = "idle"
    /\ next_room_id <= MaxRooms
    /\ wk' = [wk EXCEPT ![w] = [pc |-> "create", room |-> next_room_id, user |-> username,
                                type |-> room_type, max |-> cap]]
    /\ UNCHANGED <<rooms, next_room_id, invites, launcher, procs, ret, dir, net, game,
                   accounts, match, made>>

\* create_room 37-43: self.next_room_id += 1, the room is built and stored
\* under the id read before
w_create_store(w) ==
    /\ wk[w].pc = "create"
    /\ next_room_id' = next_room_id + 1
    /\ rooms' = (wk[w].room :>
                   [Room(TetrisId, wk[w].user, wk[w].type, wk[w].max)
                      EXCEPT !.players = <<wk[w].user>>]) @@ rooms
    /\ made' = Append(made, wk[w].room)
    /\ ret' = Ret("create_room", wk[w].room, wk[w].user, TRUE)
    /\ wk' = [wk EXCEPT ![w] = IdleWorker]
    /\ UNCHANGED <<invites, launcher, procs, dir, net, game, accounts, match>>

\* invite_user, called by a worker that no other worker interrupts
w_invite_user(w, room_id, host, target) ==
    /\ wk[w].pc = "idle"
    /\ invite_user(room_id, host, target)

NextWorkers ==
    \/ \E w \in Workers, u \in Users, t \in RoomTypes : w_create_read(w, u, t, 2)
    \/ \E w \in Workers : w_create_store(w)
    \/ \E w \in Workers, r \in RoomArgs, u \in Users : w_join_check(w, r, u)
    \/ \E w \in Workers : w_join_append(w)
    \/ \E w \in Workers, r \in RoomArgs, h \in Users, t \in Users : w_invite_user(w, r, h, t)
    \/ \E w \in Workers, r \in RoomArgs, u \in Users : w_accept_check(w, r, u)
    \/ \E w \in Workers : w_accept_append(w)

SpecWorkers == Init /\ [][NextWorkers]_vars

\* ------------------------------------------------------------------
\* The Tetris match server's main thread (game_server.py, handle_game
\* 356-478) next to the two input threads: one iteration accepts a late
\* connection, ticks the match under game.lock, sends each player its
\* snapshot, then the spectators theirs. Every send and receive is a
\* position of the thread: another thread can run while it lasts.

SnapPos == [P1 |-> "snap1", P2 |-> "snap2"]
SendPos == [P1 |-> "send1", P2 |-> "send2"]

\* 415-421 and 431-435 (sends), 367 (recv_hello)
NetworkCalls == {"hello", "send1", "send2", "sendspec"}

\* while not over (361)
LoopHead == IF over THEN "result_msg" ELSE "accept"

\* game.snapshot (174-191), 'cleared': positive rows are those of the
\* player's latest lock, numbered here by the height of its stack.
Shows(p, a) ==
    IF pstate[p].cleared_recent > 0 THEN pstate[p].board ELSE shown[p][a]

\* what a lock of the match draws: the row count, and whether the next
\* piece collides where it spawns (spawn_piece 55-56)
MatchOutcomes(p) ==
    [cleared : (0 .. MaxRows(p)) \cap FewClears, nxt : {"I"},
     freeze : {FALSE}, coll : BOOLEAN]

MatchTick(p, blocked) ==
    IF blocked THEN MatchOutcomes(pstate[p].active.p) ELSE {NoOutcome}

MatchAct(p) ==
    IF inp[p] = "HARD_DROP" THEN MatchOutcomes(pstate[p].active.p) ELSE {NoOutcome}

\* 363-392: accept_with_timeout returns nothing, or a connection whose
\* HELLO is then awaited with the FramedSocket's timeout (proto.py,
\* DEFAULT_TIMEOUT). A spectator is appended under clients_lock and
\* welcomed, a late player is refused.
hello_result(kind) ==
    IF kind = "spectator" /\ Len(spectators) < MaxSpectators
    THEN Append(spectators, TRUE) ELSE spectators

loop_accept(kind, due) ==
    /\ tphase = "running"
    /\ lpc = "accept"
    /\ kind \in {"none", "spectator", "player", "silent"}
    /\ spectators' = hello_result(kind)
    /\ lpc' = IF kind = "silent" THEN "hello"
              ELSE IF due THEN "tick" ELSE "accept"
    /\ UNCHANGED <<over, clients_lock, late, shown, result_msg>>
    /\ UNCHANGED <<rooms, next_room_id, invites, launcher, procs, ret, dir, net, bship,
                   tetris, accounts, workers>>

\* one tick period (TICK_MS, 395) goes by while recv_hello (367) waits
hello_wait ==
    /\ tphase = "running"
    /\ lpc = "hello"
    /\ late < MaxLate
    /\ late' = late + 1
    /\ UNCHANGED <<lpc, over, spectators, clients_lock, shown, result_msg>>
    /\ UNCHANGED <<rooms, next_room_id, invites, launcher, procs, ret, dir, net, bship,
                   tetris, accounts, workers>>

\* recv_hello returns the HELLO, or raises on timeout (391-392)
hello_done(kind, due) ==
    /\ tphase = "running"
    /\ lpc = "hello"
    /\ kind \in {"spectator", "player", "timeout"}
    /\ spectators' = hello_result(kind)
    /\ lpc' = IF due THEN "tick" ELSE "accept"
    /\ UNCHANGED <<over, clients_lock, late, shown, result_msg>>
    /\ UNCHANGED <<rooms, next_room_id, invites, launcher, procs, ret, dir, net, bship,
                   tetris, accounts, workers>>

\* 396-405: under game.lock each living player is ticked, P1 first;
\* over is set when at most one player lives.
loop_tick(b1, b2) ==
    /\ tphase = "running"
    /\ lpc = "tick"
    /\ \E o1 \in MatchTick("P1", b1), o2 \in MatchTick("P2", b2) :
         LET S1 == IF pstate["P1"].alive THEN tick(pstate, "P1", b1, o1) ELSE pstate
             l1 == pstate["P1"].alive /\ b1
             S2 == IF S1["P2"].alive THEN tick(S1, "P2", b2, o2) ELSE S1
             l2 == S1["P2"].alive /\ b2
             h1 == IF l1 THEN LockSeen(pstate, S1, "P1", o1) ELSE lastlock
             h2 == IF l2 THEN LockSeen(S1, S2, "P2", o2) ELSE h1
             n == (IF l1 THEN 1 ELSE 0) + (IF l2 THEN 1 ELSE 0)
         IN  /\ nlocks + n <= MaxLocks
             /\ pstate' = S2
             /\ nlocks' = nlocks + n
             /\ lastlock' = h2
             /\ tried' = [p \in TPlayers |->
                            IF (p = "P1" /\ l1) \/ (p = "P2" /\ l2)
                            THEN FALSE ELSE tried[p]]
             /\ granted' = Granted(pstate, S2)
             /\ over' = (Cardinality({q \in TPlayers : S2[q].alive}) <= 1)
    /\ lpc' = "snap1"
    /\ UNCHANGED <<inp, tphase>>
    /\ UNCHANGED <<spectators, clients_lock, late, shown, result_msg>>
    /\ UNCHANGED <<rooms, next_room_id, invites, launcher, procs, ret, dir, net, bship,
                   accounts, workers>>

\* 410-421: the names are read under clients_lock, the lock is released,
\* the payload is built and send_json begins.
snapshot(cc) ==
    /\ tphase = "running"
    /\ lpc = SnapPos[cc]
    /\ ~clients_lock
    /\ shown' = [shown EXCEPT ![cc]["you"] = Shows(cc, "you"),
                              ![Opp(cc)]["opp"] = Shows(Opp(cc), "opp")]
    /\ lpc' = SendPos[cc]
    /\ UNCHANGED <<over, spectators, clients_lock, late, result_msg>>
    /\ UNCHANGED <<rooms, next_room_id, invites, launcher, procs, ret, dir, net, bship,
                   tetris, accounts, workers>>

\* 421-422: send_json has returned, you.cleared_recent = []
snapshot_sent(cc) ==
    /\ tphase = "running"
    /\ lpc = SendPos[cc]
    /\ pstate' = [pstate EXCEPT ![cc].cleared_recent = 0]
    /\ lpc' = IF cc = "P1" THEN SnapPos["P2"] ELSE "spec"
    /\ UNCHANGED <<inp, granted, tried, lastlock, nlocks, tphase>>
    /\ UNCHANGED <<over, spectators, clients_lock, late, shown, result_msg>>
    /\ UNCHANGED <<rooms, next_room_id, invites, launcher, procs, ret, dir, net, bship,
                   accounts, workers>>

\* 427-435: clients_lock is taken and the snapshot of both players is
\* sent to each spectator in turn.
spectator_snapshot ==
    /\ tphase = "running"
    /\ lpc = "spec"
    /\ ~clients_lock
    /\ IF spectators = <<>>
       THEN /\ lpc' = LoopHead
            /\ UNCHANGED <<clients_lock, shown>>
       ELSE /\ lpc' = "sendspec"
            /\ clients_lock' = TRUE
            /\ shown' = [p \in TPlayers |->
                           [shown[p] EXCEPT !["spec"] =
                              IF \E i \in DOMAIN spectators : spectators[i]
                              THEN Shows(p, "spec") ELSE @]]
    /\ UNCHANGED <<over, spectators, late, result_msg>>
    /\ UNCHANGED <<rooms, next_room_id, invites, launcher, procs, ret, dir, net, bship,
                   tetris, accounts, workers>>

IsOpen(c) == c

\* 436-446: the spectators whose send failed are popped, the lock is
\* released.
spectator_sent ==
    /\ tphase = "running"
    /\ lpc = "sendspec"
    /\ spectators' = SelectSeq(spectators, IsOpen)
    /\ clients_lock' = FALSE
    /\ lpc' = LoopHead
    /\ UNCHANGED <<over, late, shown, result_msg>>
    /\ UNCHANGED <<rooms, next_room_id, invites, launcher, procs, ret, dir, net, bship,
                   tetris, accounts, workers>>

\* a spectator's connection closes
spectator_closes(i) ==
    /\ tphase = "running"
    /\ i \in DOMAIN spectators
    /\ spectators[i]
    /\ spectators' = [spectators EXCEPT ![i] = FALSE]
    /\ UNCHANGED <<lpc, over, clients_lock, late, shown, result_msg>>
    /\ UNCHANGED <<rooms, next_room_id, invites, launcher, procs, ret, dir, net, bship,
                   tetris, accounts, workers>>

\* 452-460: winners and losers are read and RESULT is sent to p1 and p2;
\* 462-478 then closes every socket.
send_result ==
    /\ tphase = "running"
    /\ lpc = "result_msg"
    /\ result_msg' = [winners |-> {p \in TPlayers : pstate[p].alive},
                  losers |-> {p \in TPlayers : ~pstate[p].alive},
                  to |-> {"P1", "P2"}]
    /\ lpc' = "done"
    /\ tphase' = "over"
    /\ UNCHANGED <<pstate, inp, granted, tried, lastlock, nlocks>>
    /\ UNCHANGED <<over, spectators, clients_lock, late, shown>>
    /\ UNCHANGED <<rooms, next_room_id, invites, launcher, procs, ret, dir, net, bship,
                   accounts, workers>>

\* a match with its main thread, both clients dropping their pieces
NextTetrisLoop ==
    \/ start_match("I", "I")
    \/ \E p \in TPlayers : input_recv(p, "HARD_DROP")
    \/ \E p \in TPlayers : \E o \in MatchAct(p) : input_apply(p, o)
    \/ \E kind \in {"none", "spectator", "player", "silent"}, due \in BOOLEAN :
         loop_accept(kind, due)
    \/ hello_wait
    \/ \E kind \in {"spectator", "player", "timeout"}, due \in BOOLEAN :
         hello_done(kind, due)
    \/ \E b1 \in BOOLEAN, b2 \in BOOLEAN : loop_tick(b1, b2)
    \/ \E cc \in TPlayers : snapshot(cc)
    \/ \E cc \in TPlayers : snapshot_sent(cc)
    \/ spectator_snapshot
    \/ spectator_sent
    \/ \E i \in 1 .. MaxSpectators : spectator_closes(i)
    \/ send_result

SpecTetrisLoop == LobbyInit /\ [][NextTetrisLoop]_vars

\* ------------------------------------------------------------------ claims
Count(u, s) == Cardinality({i \in DOMAIN s : s[i] = u})
PendingNext(room_id) ==
    IF room_id \in DOMAIN invites' THEN invites'[room_id] ELSE {}
CalledOn(op, status) ==
    /\ ret'.op = op
    /\ ret'.room \in RoomIds
    /\ rooms[ret'.room].status = status

\* C1: in every reachable state the number of participants of every room is
\* at most that room's max_players.
C1_Capacity == \A r \in RoomIds : Len(rooms[r].players) <= rooms[r].max_players

\* a join was refused because the room is full
C1_Witness ==
    /\ ret.op \in {"join_room", "accept_invite"} /\ ~ret.ok
    /\ ret.room \in RoomIds
    /\ rooms[ret.room].status = "waiting"
    /\ Len(rooms[ret.room].players) = rooms[ret.room].max_players
    /\ rooms[ret.room].max_players = MaxCapacity

\* C2: a private room starts with its host alone; every step that adds a
\* participant to it adds the host, or an identity whose accept_invite found
\* its invite pending and consumed it; and an invite becomes pending only by
\* an invite_user call of the room's host.
C2_PrivateAdmission ==
    [][\A r \in DOMAIN rooms' :
         /\ (r \notin RoomIds /\ rooms'[r].type = "private")
               => rooms'[r].players = <<rooms'[r].host>>
         /\ (r \in RoomIds /\ rooms[r].type = "private")
               => \A u \in Users :
                    /\ Count(u, rooms'[r].players) > Count(u, rooms[r].players)
                         => \/ u = rooms[r].host
                            \/ /\ ret'.op = "accept_invite" /\ ret'.user = u
                               /\ u \in Pending(r) /\ u \notin PendingNext(r)
                    /\ (u \in PendingNext(r) /\ u \notin Pending(r))
                         => /\ ret'.op = "invite_user" /\ ret'.ok
                            /\ ret'.user = rooms[r].host
                            /\ ret'.room = r]_vars

\* an invitee was admitted to a private room
C2_Witness ==
    /\ ret.op = "accept_invite" /\ ret.ok
    /\ rooms[ret.room].type = "private"
    /\ ret.user # rooms[ret.room].host
    /\ InSeq(ret.user, rooms[ret.room].players)

\* C3 (as claimed): start_game on a running room returns an error, does not
\* call the launcher and leaves the recorded port unchanged.
C3_NoRestart ==
    [][CalledOn("start_game", "running")
         => /\ ~ret'.ok /\ ~ret'.launched
            /\ rooms'[ret'.room].port = rooms[ret'.room].port]_vars

\* C4: join_room and accept_invite on a running room fail and leave the
\* participant list and the invite set unchanged.
C4_NoJoinRunning ==
    [][(CalledOn("join_room", "running") \/ CalledOn("accept_invite", "running"))
         => /\ ~ret'.ok
            /\ rooms' = rooms
            /\ invites' = invites]_vars

\* the holder of a pending invite was refused by a running room
C4_Witness ==
    /\ ret.op = "accept_invite" /\ ~ret.ok
    /\ ret.room \in RoomIds
    /\ rooms[ret.room].status = "running"
    /\ ret.user \in Pending(ret.room)
    /\ Len(rooms[ret.room].players) < rooms[ret.room].max_players

\* C5 (as claimed): invite_user on a running room fails and leaves the room's
\* invite set unchanged.
C5_NoInviteRunning ==
    [][CalledOn("invite_user", "running")
         => (~ret'.ok /\ invites' = invites)]_vars

\* C6: a start_game on a waiting room that returns an error leaves the room
\* waiting with no port; a room becomes running, and gets its port, only in a
\* start_game whose launcher call succeeded, and the port is the launcher's.
C6_FailedStartKeepsWaiting ==
    [][/\ (CalledOn("start_game", "waiting") /\ ~ret'.ok)
            => /\ rooms'[ret'.room].status = "waiting"
               /\ rooms'[ret'.room].port = NoPort
       /\ \A r \in RoomIds :
            (rooms'[r].status # rooms[r].status \/ rooms'[r].port # rooms[r].port)
               => /\ ret'.op = "start_game" /\ ret'.room = r
                  /\ ret'.launched /\ ret'.ok
                  /\ rooms'[r].status = "running"
                  /\ rooms'[r].port = ret'.port /\ ret'.port # NoPort]_vars

\* the launcher was called for a waiting room and failed after the deadline
C6_Witness ==
    /\ ret.op = "start_game" /\ ret.launched /\ ~ret.ok /\ ret.proc > 0
    /\ rooms[ret.room].status = "waiting"
    /\ rooms[ret.room].port = NoPort

\* C8: a launch that returned success saw a probe connection accepted: the
\* last probe of the poll was accepted; a poll none of whose probes was
\* accepted never ends in success.
C8_SuccessOnlyAfterAccept ==
    (ret.op = "start_game" /\ ret.launched /\ ret.proc > 0)
       => /\ ret.ok => (Len(ret.probes) >= 1 /\ ret.probes[Len(ret.probes)])
          /\ (\A k \in DOMAIN ret.probes : ~ret.probes[k]) => ~ret.ok

\* the launch succeeded on a probe after the first had been refused
C8_Witness ==
    /\ ret.op = "start_game" /\ ret.ok
    /\ Len(ret.probes) = MaxProbes
    /\ ~ret.probes[1] /\ ret.probes[MaxProbes]

\* C9: a launch whose poll ran out the deadline returns an error and the
\* process it spawned is terminated; after a failed launch no process
\* started by it is running.
C9_FailedLaunchTerminates ==
    (ret.op = "start_game" /\ ret.launched)
       => /\ (ret.proc > 0 /\ \A k \in DOMAIN ret.probes : ~ret.probes[k])
               => (~ret.ok /\ procs[ret.proc].state = "terminated")
          /\ (~ret.ok /\ ret.proc > 0)
               => procs[ret.proc].state \notin {"starting", "listening"}

\* the deadline elapsed on a spawned process
C9_Witness ==
    /\ ret.op = "start_game" /\ ret.launched /\ ~ret.ok /\ ret.proc > 0
    /\ Len(ret.probes) = MaxProbes
    /\ procs[ret.proc].state = "terminated"

\* C7: a start_game request by a caller who is not the room's host, or on a
\* room with fewer than 2 participants, fails without calling the launcher
\* and changes neither the room nor the processes, and pushes nothing.
C7_StartRejected ==
    [][(/\ ret'.op = "start_game"
        /\ ret'.room \in RoomIds
        /\ \/ rooms[ret'.room].host # ret'.user
           \/ Len(rooms[ret'.room].players) < MinPlayers)
         => /\ ~ret'.ok /\ ~ret'.launched
            /\ rooms' = rooms /\ procs' = procs /\ invites' = invites
            /\ ret'.sent = <<>>]_vars

\* a logged-in participant who is not the host asked to start a startable room
C7_Witness ==
    /\ ret.op = "start_game" /\ ~ret.ok /\ ~ret.launched
    /\ ret.room \in RoomIds
    /\ ret.user \in Users /\ ret.user # rooms[ret.room].host
    /\ InSeq(ret.user, rooms[ret.room].players)
    /\ Len(rooms[ret.room].players) >= MinPlayers
    /\ rooms[ret.room].status = "waiting"

OpenPrimary(u) == {c \in Conns : conn_state[c] = "open" /\ conn_user[c] = u}
Delivered(u) == {i \in DOMAIN ret.sent : ret.sent[i].user = u /\ ret.sent[i].ok}

\* C10 (as claimed): after a successful start_game by host A of a room whose
\* participants are A and B, with B logged in on an open primary connection
\* and holding at most one notifier connection, also open (the directory
\* holding at most one handle of each role for B), B has received
\* exactly one game_started push, carrying the room id, the game id and the
\* port returned to A, and A has received none.
C10_OnePushToGuest ==
    (/\ ret.op = "start_game" /\ ret.ok
     /\ Len(rooms[ret.room].players) = 2
     /\ rooms[ret.room].players[1] = ret.user
     /\ rooms[ret.room].players[2] # ret.user
     /\ OpenPrimary(rooms[ret.room].players[2]) # {}
     /\ Len(Get(monitors, rooms[ret.room].players[2])) <= 1
     /\ Len(Get(clients, rooms[ret.room].players[2])) <= 1
     /\ \A i \in DOMAIN ret.sent : conn_state[ret.sent[i].conn] = "open")
       => /\ Cardinality(Delivered(rooms[ret.room].players[2])) = 1
          /\ \A i \in Delivered(rooms[ret.room].players[2]) :
                /\ ret.sent[i].room_id = ret.room
                /\ ret.sent[i].port = ret.port
                /\ ret.sent[i].game_id = rooms[ret.room].game_id
          /\ Delivered(ret.user) = {}

\* C11: a start_game whose launcher call ended with the spawned process found
\* accepting on its port returns ok with that port and leaves the room running
\* on it, however many pushes failed and whoever had no connection to push to.
C11_FanoutNeverFails ==
    [][(/\ ret'.op = "start_game" /\ ret'.launched
        /\ Len(procs') = Len(procs) + 1
        /\ procs'[Len(procs')].state # "terminated")
         => /\ ret'.ok
            /\ ret'.port = procs'[Len(procs')].port
            /\ rooms'[ret'.room].status = "running"
            /\ rooms'[ret'.room].port = ret'.port]_vars

\* the launch succeeded and a push to a participant failed
C11_Witness ==
    /\ ret.op = "start_game" /\ ret.ok
    /\ rooms[ret.room].status = "running"
    /\ \E i \in DOMAIN ret.sent :
          /\ ~ret.sent[i].ok
          /\ ret.sent[i].user # ret.user
          /\ InSeq(ret.sent[i].user, rooms[ret.room].players)

\* the open connections attached to u: logged in as primary, or registered as
\* notifier
LiveHandles(u) ==
    {c \in Conns : /\ conn_state[c] = "open"
                   /\ \/ conn_user[c] = u
                      \/ InSeq(c, Get(clients, u))
                      \/ InSeq(c, Get(monitors, u))}

\* C12 (as claimed): the game_started fan-out of a successful start_game
\* attempted a send on every live handle of every participant other than the
\* caller, primary and notifier alike.
C12_PushAllHandles ==
    (ret.op = "start_game" /\ ret.ok)
       => \A i \in DOMAIN rooms[ret.room].players :
            LET p == rooms[ret.room].players[i] IN
            p # ret.user
              => \A c \in LiveHandles(p) :
                   \E k \in DOMAIN ret.sent :
                      ret.sent[k].user = p /\ ret.sent[k].conn = c

\* C13 (as claimed): every open connection attached to an identity as primary
\* by login or resume is in that identity's primary handle list, and no
\* connection is in a handle list of either role more than once, however
\* many times it was attached.
C13_AttachedOnce ==
    \A c \in Conns : \A u \in Users :
       /\ (conn_state[c] = "open" /\ conn_user[c] = u)
             => Count(c, Get(clients, u)) = 1
       /\ Count(c, Get(clients, u)) <= 1
       /\ Count(c, Get(monitors, u)) <= 1

\* C14 (as claimed): after a game_started or chat_message push, no handle on
\* which a send of that push failed is still registered for its identity, in
\* either role list.
C14_DeadHandlePruned ==
    (ret.op \in {"start_game", "send_chat"} /\ ret.ok)
       => \A k \in DOMAIN ret.sent :
            ~ret.sent[k].ok
              => /\ ~InSeq(ret.sent[k].conn, Get(monitors, ret.sent[k].user))
                 /\ ~InSeq(ret.sent[k].conn, Get(clients, ret.sent[k].user))

\* the header the reader is about to complete
DueHeader == rd.buf \o SubSeq(wire, 1, HeaderSize - Len(rd.buf))

\* C15: when the reader completes a header whose declared length is 0 or more
\* than MAX_LEN, recv raises having taken the header bytes only, nothing is
\* delivered, the connection is closed and every other connection is left as
\* it was; nothing is read from a closed connection afterwards, and the
\* server still accepts the connections that have not arrived yet.
C15_BadLengthCloses ==
    [][/\ (/\ Len(wire') < Len(wire)
            /\ rd.phase = "header"
            /\ Len(rd.buf) + Len(wire) >= HeaderSize
            /\ (unpack(DueHeader) = 0 \/ unpack(DueHeader) > MAX_LEN))
          => /\ rd'.status = "error"
             /\ Len(wire) - Len(wire') = HeaderSize - Len(rd.buf)
             /\ delivered' = delivered
             /\ conn_state'[FC] = "closed"
             /\ \A c \in Conns \ {FC} : conn_state'[c] = conn_state[c]
       /\ conn_state[FC] = "closed"
          => (wire' = wire /\ rd' = rd /\ delivered' = delivered)
       /\ (rd.status = "error" /\ \E c \in Conns : conn_state[c] = "idle")
          => ENABLED (\E c \in Conns : Accept(c))]_vars

\* a header declaring more than MAX_LEN closed the connection with the body
\* unread, and another connection was accepted afterwards
C15_Witness ==
    /\ rd.status = "error" /\ rd.phase = "header"
    /\ unpack(rd.buf) > MAX_LEN
    /\ wire = dumps(<<1>>)
    /\ conn_state[FC] = "closed"
    /\ ret.op = "accept"
    /\ \E c \in Conns \ {FC} : conn_state[c] = "open"

\* C16 (as claimed): with every writer using send(), the reader never meets
\* a header or a body that is not a frame's: recv does not raise, and every
\* object it returns is one a thread sent.
C16_NoInterleaving ==
    raw = 0
      => /\ rd.status # "error"
         /\ \A i \in DOMAIN delivered :
               \E t \in Threads : InSeq(delivered[i], sent[t])

IsPrefix(a, b) == Len(a) <= Len(b) /\ a = SubSeq(b, 1, Len(a))

\* C17: when one thread alone has sent, through send(), the objects recv has
\* returned are the first of those sent, in order; recv never raises; it
\* reports end-of-stream only once the writer has closed and every byte that
\* arrived is read, whether that is between frames or inside one; and when
\* every byte of every frame is read, every object sent has been returned.
C17_RoundTrip ==
    \A t \in Threads :
       (raw = 0 /\ \A u \in Threads \ {t} : sent[u] = <<>>)
         => /\ IsPrefix(delivered, sent[t])
            /\ rd.status # "error"
            /\ rd.status = "eof" => (wclosed /\ wire = <<>>)
            /\ (out[t] = <<>> /\ wire = <<>> /\ rd.buf = <<>>
                   /\ rd.phase = "header")
                  => delivered = sent[t]

\* one thread sent two different objects, the first was returned, and the
\* stream ended inside the second frame, part of it read
C17_Witness ==
    \E t \in Threads :
       /\ raw = 0 /\ \A u \in Threads \ {t} : sent[u] = <<>>
       /\ Len(sent[t]) = 2 /\ sent[t][1] # sent[t][2]
       /\ delivered = <<sent[t][1]>>
       /\ rd.status = "eof" /\ rd.phase = "body" /\ rd.buf # <<>>
       /\ out[t] # <<>>

\* C18 (as claimed): join_room by an identity that is already a participant of
\* a waiting room succeeds and leaves the participant list unchanged, and no
\* identity appears twice in a room's participant list.
C18_JoinIdempotent ==
    [][/\ (/\ CalledOn("join_room", "waiting")
            /\ InSeq(ret'.user, rooms[ret'.room].players))
          => (ret'.ok /\ rooms' = rooms)
       /\ \A r \in DOMAIN rooms' : \A u \in Users :
             Count(u, rooms'[r].players) <= 1]_vars

\* C19: invite_user or revoke_invite by an identity other than the room's
\* host, and invite_user on a public room, fail and leave the invite set and
\* the participant list unchanged.
C19_HostOnlyInvites ==
    [][(/\ ret'.room \in RoomIds
        /\ \/ /\ ret'.op \in {"invite_user", "revoke_invite"}
              /\ ret'.user # rooms[ret'.room].host
           \/ /\ ret'.op = "invite_user"
              /\ rooms[ret'.room].type = "public")
         => /\ ~ret'.ok
            /\ invites' = invites
            /\ rooms' = rooms]_vars

\* an identity that is not the host was refused a revoke on a private room
\* that has a pending invite
C19_Witness ==
    /\ ret.op = "revoke_invite" /\ ~ret.ok
    /\ ret.room \in RoomIds
    /\ rooms[ret.room].type = "private"
    /\ ret.user # rooms[ret.room].host
    /\ Pending(ret.room) # {}

\* C20: accept_invite by an identity with a pending invite to a waiting,
\* non-full private room succeeds, appends the identity and removes the invite
\* (so the identity holds no invite for a second accept); accept_invite by an
\* identity with no pending invite fails and changes nothing.
C20_AcceptConsumes ==
    [][(ret'.op = "accept_invite" /\ ret'.room \in RoomIds)
         => LET r == ret'.room
                u == ret'.user
            IN  /\ (/\ u \in Pending(r)
                     /\ rooms[r].type = "private"
                     /\ rooms[r].status = "waiting"
                     /\ Len(rooms[r].players) < rooms[r].max_players)
                      => /\ ret'.ok
                         /\ rooms'[r].players = Append(rooms[r].players, u)
                         /\ PendingNext(r) = Pending(r) \ {u}
                /\ u \notin Pending(r)
                      => /\ ~ret'.ok
                         /\ rooms' = rooms
                         /\ invites' = invites]_vars

\* an identity admitted through its invite accepted a second time and was
\* refused, the room still waiting with a free seat
C20_Witness ==
    /\ ret.op = "accept_invite" /\ ~ret.ok
    /\ ret.room \in RoomIds
    /\ rooms[ret.room].type = "private"
    /\ rooms[ret.room].status = "waiting"
    /\ ret.user # rooms[ret.room].host
    /\ InSeq(ret.user, rooms[ret.room].players)
    /\ ret.user \notin Pending(ret.room)
    /\ Len(rooms[ret.room].players) < rooms[ret.room].max_players


\* ---- Battleship match server
\* the last pass was a completed turn of relay_turn
\* a step of relay_turn that completes a turn (a drop leaves last as it is)
TurnDone == phase = "playing" /\ last'.op = "turn" /\ drops' = drops

MarkerGone(board, symbol) == \A x \in Cells : board[x] # symbol

Connected(i) == bplayers'[i].conn = "open"

C22_DroppedSeatSkipped ==
    [][(TurnDone /\ script = "u2" /\ Len(bplayers) = MaxSeats)
          => /\ bplayers[last'.att].conn = "open"
             /\ bplayers[last'.def].conn = "open"]_vars

\* C23: an attack whose coordinates are out of range or unusable is
\* answered to the attacker with RESULT REPEAT, changes no board and sends
\* no INCOMING to the defender.
C23_BadCoordsRepeat ==
    [][(/\ phase = "playing"
        /\ last'.your_turn
        /\ last'.kind \in {"range", "malformed"})
          => /\ last'.op = "turn"
             /\ last'.result = "REPEAT"
             /\ ~last'.incoming
             /\ \A i \in DOMAIN bplayers : bplayers'[i].board = bplayers[i].board]_vars

\* the only seat whose client is still connected
LastSeat(i) ==
    /\ phase = "playing"
    /\ i \in DOMAIN bplayers
    /\ \A j \in DOMAIN bplayers : bplayers[j].conn = "open" <=> j = i

\* C24: when all seats but one have dropped, the remaining seat is
\* eventually sent WIN and the match ends, provided it keeps answering
\* its prompts with attacks.
C24_LastSeatWins ==
    \A i \in 1 .. MaxSeats : LastSeat(i) ~> (phase = "over" /\ i \in last.win)

\* C25: every seat of a match is held by a connection whose first message
\* was a HELLO; the launcher's probe, which connects and closes, holds none.
C25_SeatedSaidHello == \A i \in DOMAIN bplayers : bplayers[i].hello

\* ---- Tetris match server
\* a step that locks a piece; lastlock' is then the lock it made last
Locked == nlocks' > nlocks

\* two locks agree with a score that is a function of the row count, 0 for
\* no row, nondecreasing, and strictly largest for 4 rows
ByRows(c1, a1, c2, a2) ==
    /\ c2 = 0 => a2 = 0
    /\ c1 = c2 => a1 = a2
    /\ c1 <= c2 => a1 <= a2
    /\ (c1 \in 1 .. 3 /\ c2 = 4) => a1 < a2
    /\ (c2 \in 1 .. 3 /\ c1 = 4) => a2 < a1

\* C26 (as stated): the score one lock gives depends only on the rows it
\* cleared, is 0 for 0 rows, nondecreasing in the rows, and for 4 rows
\* strictly more than for 1, 2 or 3.
C26_ScoreByRowsOnly ==
    [][Locked =>
         /\ lastlock'.cleared = 0 => lastlock'.award = 0
         /\ lastlock.who # NoPiece =>
               ByRows(lastlock.cleared, lastlock.award,
                      lastlock'.cleared, lastlock'.award)]_vars

\* the part of a lock's score that is not the power piece's bonus
LineAward(l) == l.award - (IF l.piece = "P" THEN 50 ELSE 0)

\* C26 (amended): the score one lock gives for its cleared rows depends
\* only on their number, is 0 for 0 rows, nondecreasing, and for 4 rows
\* strictly more than for 1, 2 or 3; the lock of a power piece adds a fixed
\* 50 to it, whatever the rows.
C26_LineScoreByRows ==
    [][Locked =>
         /\ lastlock'.cleared = 0 => LineAward(lastlock') = 0
         /\ lastlock.who # NoPiece =>
               ByRows(lastlock.cleared, LineAward(lastlock),
                      lastlock'.cleared, LineAward(lastlock'))]_vars

C26_Witness ==
    /\ nlocks = MaxLocks
    /\ lastlock.cleared = 4
    /\ lastlock.award > 0
    /\ \E p \in TPlayers : pstate[p].score > lastlock.award

\* C27: after every lock the charges ever granted to a player are
\* floor(cumulative cleared lines / 2): one charge each time the line count
\* passes a multiple of 2, none twice for the same lines.
C27_ChargesPerTwoLines ==
    \A p \in TPlayers : granted[p] = pstate[p].lines \div 2

C27_Witness ==
    \E p \in TPlayers :
       /\ pstate[p].board = MaxLocks
       /\ pstate[p].lines = 3
       /\ granted[p] = 1
       /\ lastlock.cleared = 2

\* player p's input thread applies the action it has read
Applies(p) == inp[p] \in Acts /\ inp'[p] = "recv"

Own(S, p) == <<S[p].board, S[p].active, S[p].hold, S[p].flash_charges>>

\* C28: no input action changes a player's board, active piece, held
\* piece or charges at a moment when that player is frozen, also when the
\* freeze was set after the thread's freeze check.
C28_FrozenInputInert ==
    [][\A p \in TPlayers :
          (Applies(p) /\ pstate[p].frozen) => Own(pstate', p) = Own(pstate, p)]_vars

\* C29: between two locks of a player the first HOLD handled banks the
\* active piece (empty slot) or swaps it with the held one, every further
\* HOLD changes nothing, and the next lock makes HOLD usable again.
C29_HoldOncePerLock ==
    [][\A p \in TPlayers :
          (Applies(p) /\ inp[p] = "HOLD") =>
             IF tried[p]
             THEN pstate'[p] = pstate[p]
             ELSE /\ pstate'[p].hold = pstate[p].active.p
                  /\ pstate[p].hold # NoPiece =>
                        pstate'[p].active = [p |-> pstate[p].hold, x |-> 3, r |-> 0]
                  /\ pstate[p].hold = NoPiece =>
                        pstate'[p].active.p \in Pieces]_vars

C29_Witness ==
    /\ pstate["P1"].board > 0
    /\ tried["P1"]
    /\ pstate["P1"].hold # NoPiece
    /\ pstate["P1"].hold # pstate["P1"].active.p
    /\ inp["P1"] = "HOLD"

\* C30: FLASH with a charge against an opponent who is not frozen takes
\* exactly one charge and freezes the opponent; with no charge or against a
\* frozen opponent it changes nothing; the charge count is never negative.
C30_FlashSpendsOne ==
    [][\A p \in TPlayers :
          /\ pstate'[p].flash_charges >= 0
          /\ (Applies(p) /\ inp[p] = "FLASH") =>
                IF pstate[p].flash_charges > 0 /\ ~pstate[Opp(p)].frozen
                THEN /\ pstate'[p].flash_charges = pstate[p].flash_charges - 1
                     /\ pstate'[Opp(p)].frozen
                ELSE pstate' = pstate]_vars

C30_Witness ==
    /\ granted["P1"] > pstate["P1"].flash_charges
    /\ pstate["P2"].frozen
    /\ inp["P1"] = "FLASH"


\* C33: a login for a username whose session is connected fails (with
\* already_logged_in when the credentials are those of the account) and
\* leaves the session as it was; mark_disconnected on a session keeps the
\* entry and its role with connected = FALSE; a login with the account's
\* credentials on a disconnected session is accepted and connects it.
C33_DuplicateLoginRejected ==
    LET u == acct_ret.user
        before == acct_ret.before
    IN  /\ (acct_ret.op = "login" /\ before.present /\ before.connected) =>
              /\ ~acct_ret.ok
              /\ online_users[u] = before
              /\ acct_ret.valid => acct_ret.msg = "already_logged_in"
        /\ (acct_ret.op = "mark_disconnected" /\ before.present) =>
              online_users[u] = Session(before.role, FALSE)
        /\ (acct_ret.op = "login" /\ acct_ret.valid /\ before.present
              /\ ~before.connected) =>
              /\ acct_ret.ok
              /\ online_users[u].present /\ online_users[u].connected

C33_Witness ==
    /\ acct_ret.op = "login"
    /\ acct_ret.ok
    /\ acct_ret.before.present
    /\ ~acct_ret.before.connected
    /\ acct_ret.user = "alice"
    /\ acct_ret.before.role = "player"

\* seats whose connection has not dropped
OpenSeats == {i \in Seats : bplayers[i].conn = "open"}

\* steps round the ring from seat i to seat j, a full round for i itself
RingDist(i, j) == ((j - i + Len(bplayers) - 1) % Len(bplayers)) + 1

\* seat j is the first seat of S after seat i in ring order
RingNext(i, j, S) == j \in S /\ \A k \in S : RingDist(i, j) <= RingDist(i, k)

\* C34: in every turn of a u2 match that resolves an attack the defender
\* is not the attacker and
\* is the first seat after the attacker, in ring order, whose connection
\* has not dropped; and the attacker is the first such seat after the seat
\* of the turn before (a resolved attack or a lost attacker).
C34_RingTurns ==
    [][(TurnDone /\ script = "u2" /\ last'.incoming) =>
          /\ last'.att # last'.def
          /\ RingNext(last'.att, last'.def, OpenSeats \ {last'.att})
          /\ ((last.op = "turn" /\ last.incoming) \/ last.op = "lost") =>
                RingNext(last.att, last'.att, OpenSeats)]_vars

\* C35: in the game_started fan-out of a successful start_game every
\* connection that was in a participant's notifier list when the fan-out
\* began gets a send attempt, whether or not a send on another connection
\* failed and that connection was pruned.
C35_EveryHandleTried ==
    [][(ret'.op = "start_game" /\ ret'.ok /\ Len(procs') > Len(procs)) =>
          \A i \in DOMAIN rooms[ret'.room].players :
             LET p == rooms[ret'.room].players[i] IN
             p # ret'.user =>
                \A j \in DOMAIN Get(monitors, p) :
                   \E k \in DOMAIN ret'.sent :
                      /\ ret'.sent[k].user = p
                      /\ ret'.sent[k].conn = Get(monitors, p)[j]]_vars

\* C37: whatever the interleaving of the connection workers, no room has
\* more participants than its max_players and no two create_room calls
\* have returned the same room id.
C37_Serialized ==
    /\ \A r \in RoomIds : Len(rooms[r].players) <= Capacity(rooms[r])
    /\ \A i \in DOMAIN made : \A j \in DOMAIN made : i # j => made[i] # made[j]

\* C38: a start_game that succeeds on a waiting room has spawned a process
\* that listens on the port it returns (the port was not bound before, so
\* the readiness probe reached that process), and no other running room
\* has recorded that port.
C38_FreshPort ==
    [][(CalledOn("start_game", "waiting") /\ ret'.ok) =>
          /\ procs'[ret'.proc].state = "listening"
          /\ \A r \in RoomIds :
                (r # ret'.room /\ rooms'[r].status = "running")
                   => rooms'[r].port # rooms'[ret'.room].port]_vars

\* C31: the tick loop never blocks on a connection: no tick period goes
\* by while the main thread waits for a peer's data.
C31_TickNeverDelayed == late = 0

\* C32: the match ends at the first tick after which at most one player
\* is alive; no further tick is applied, and a RESULT naming exactly the
\* living players as winners and the others as losers has been sent to
\* both players and to the attached spectators when the loop is done.
C32_ResultToEveryone ==
    /\ over => lpc \notin {"accept", "hello", "tick"}
    /\ lpc = "done" =>
         /\ result_msg.winners = {p \in TPlayers : pstate[p].alive}
         /\ result_msg.losers = {p \in TPlayers : ~pstate[p].alive}
         /\ Cardinality(result_msg.winners) <= 1
         /\ TPlayers \subseteq result_msg.to
         /\ spectators # <<>> => "spectators" \in result_msg.to

\* the audiences a player's cleared rows are due to
Attached == {"you", "opp"} \cup (IF spectators = <<>> THEN {} ELSE {"spec"})

\* C36: the rows a lock cleared stay in the player's cleared field until
\* a snapshot has shown them to the player, to the opponent and to the
\* spectators: they are replaced only after that.
C36_ClearedShownToAll ==
    [][\A p \in TPlayers :
         (/\ pstate[p].cleared_recent > 0
          /\ \/ pstate'[p].cleared_recent # pstate[p].cleared_recent
             \/ pstate'[p].board # pstate[p].board)
         => \A a \in Attached : shown[p][a] = pstate[p].board]_vars

\* C39: while the main thread is inside a network send or receive,
\* clients_lock is not held.
C39_NoLockAcrossNetwork == lpc \in NetworkCalls => ~clients_lock

\* C40: once a player is not alive it stays so, a step changes neither
\* its board, score, lines nor flash charges, and its input freezes
\* nobody.
C40_DeadPlayerFrozen ==
    [][\A p \in TPlayers :
         ~pstate[p].alive =>
            /\ ~pstate'[p].alive
            /\ pstate'[p].board = pstate[p].board
            /\ pstate'[p].score = pstate[p].score
            /\ pstate'[p].lines = pstate[p].lines
            /\ pstate'[p].flash_charges = pstate[p].flash_charges
            /\ (inp[p] \in Acts /\ inp'[p] = "recv")
                 => pstate'[Opp(p)].frozen = pstate[Opp(p)].frozen]_vars

====
